---- MODULE Spec2Model ----
(***************************************************************************)
(* Nourished quiz: the scoring and tie-break engine of QuizClient.jsx and  *)
(* of QuizResults.jsx (src/unnamed/part_000).                              *)
(*                                                                         *)
(* Representation of JavaScript values:                                    *)
(*  - a string is a sequence of one-character strings, so that norm(),     *)
(*    String.includes and the numeric-string test are computed, not        *)
(*    assumed; a product code is only ever compared and tested for         *)
(*    truthiness, and is written as a TLA+ string ("" is the falsy code);  *)
(*  - an answer value is a record [k, s, a, n] (null, string, array of     *)
(*    strings, number);                                                    *)
(*  - an answers object is a function from the keys it holds to values;    *)
(*    a key it does not hold reads as null (JS undefined == null);         *)
(*  - a weights object and an option map are sequences of entries in       *)
(*    Object.keys order (insertion order: no key of the model is           *)
(*    integer-like), with distinct keys.                                   *)
(***************************************************************************)
EXTENDS Integers, Sequences, FiniteSets, TLC

VARIABLES
    questions,      \* the question list handed to the scorer
    weights,        \* the weights object (WObj / WNull)
    answers,        \* the raw answers object (AObj / ANull)
    answersByTitle, \* QuizResults: normaliseAnswersByTitle's result
    renormalised,   \* normaliseAnswersByTitle applied to its own result
    tallies,        \* the tallies object of the current pass
    winner,         \* pickWinner's result of the current pass
    prevRun,        \* what the previous pass returned
    given,          \* the inputs as first handed over (history)
    runs,           \* number of passes started
    impl,           \* "client" (QuizClient.jsx) or "results" (QuizResults.jsx)
    pc,             \* position in the pass
    kiosk,          \* QuizClient: the kiosk query parameter is "1"
    idle,           \* QuizClient: idle state
    loading,        \* QuizClient: loading state
    error,          \* QuizClient: error state (null or a message)
    step,           \* QuizClient: step state
    qload,          \* position of the questions load
    wload,          \* position of the weights load
    cancelled,      \* the effects' cleanup has run
    weightsError    \* window.__WEIGHTS_ERROR__ is set

\* the state of the component around the scoring pass
flowVars == <<kiosk, idle, loading, error, step, qload, wload, cancelled,
              weightsError>>

\* what a scoring pass works on and returns
passVars == <<answersByTitle, renormalised, tallies, winner, prevRun, given, runs>>

vars == <<questions, weights, answers, answersByTitle, renormalised,
          tallies, winner, prevRun, given, runs, impl, pc,
          kiosk, idle, loading, error, step, qload, wload, cancelled,
          weightsError>>

---------------------------------------------------------------------------
(* Program constants *)

PRODUCT_ORDER ==
    <<"Eic", "Epi", "Meca", "Ecp", "Cpe", "hcb", "Hpes", "Rnp", "Bmca",
      "Mjb", "Spe", "Shp", "Gsi">>

PRIORITIES_TITLE ==
    <<"W","h","i","c","h"," ">> \o
    <<"o","f"," ">> \o
    <<"t","h","e"," ">> \o
    <<"b","e","l","o","w"," ">> \o
    <<"a","r","e"," ">> \o
    <<"y","o","u","r"," ">> \o
    <<"t","o","p"," ">> \o
    <<"t","w","o"," ">> \o
    <<"p","r","i","o","r","i","t","i","e","s"," ">> \o
    <<"i","n"," ">> \o
    <<"t","h","e"," ">> \o
    <<"u","p","c","o","m","i","n","g"," ">> \o
    <<"m","o","n","t","h","s","?">>

---------------------------------------------------------------------------
(* Bounds of the model *)

\* largest tally handed to pickWinner directly
MaxTally == 2
\* longest multi-choice selection
MaxSelected == 2
\* longest question list handed to normaliseAnswersByTitle directly
MaxQuestions == 2
\* scoring passes over the same inputs
MaxRuns == 2

---------------------------------------------------------------------------
(* JavaScript values *)

NullV == [k |-> "null", s |-> <<>>, a |-> <<>>, n |-> 0]
StrV(str) == [k |-> "str", s |-> str, a |-> <<>>, n |-> 0]
ArrV(arr) == [k |-> "arr", s |-> <<>>, a |-> arr, n |-> 0]
NumV(num) == [k |-> "num", s |-> <<>>, a |-> <<>>, n |-> num]

EmptyObj == [x \in {} |-> NullV]
AObj(m) == [k |-> "obj", m |-> m]
ANull == [k |-> "null", m |-> EmptyObj]

\* obj[key], undefined read as null
Get(m, key) == IF key \in DOMAIN m THEN m[key] ELSE NullV
\* obj[key] = v
Put(m, key, v) == [x \in (DOMAIN m) \cup {key} |-> IF x = key THEN v ELSE m[x]]

WObj(entries) == [k |-> "obj", m |-> entries]
WNull == [k |-> "null", m |-> <<>>]

\* a weights entry  title: optionMap ; optionMap null when k = "null"
TitleEntry(title, map) == [title |-> title, k |-> "map", map |-> map]
NullTitleEntry(title) == [title |-> title, k |-> "null", map |-> <<>>]
\* an option-map entry  label: [codes] ; a value that is no list is
\* "truthy" (a non-empty string, a number, an object) or "falsy" (null, 0, "")
OptionEntry(label, codes) == [label |-> label, k |-> "list", codes |-> codes]
NonListEntry(label, kind) == [label |-> label, k |-> kind, codes |-> <<>>]

EmptyTallies == [x \in {} |-> 0]
TObj(m) == [k |-> "obj", m |-> m]
TNull == [k |-> "null", m |-> EmptyTallies]
TThrow == [k |-> "throw", m |-> EmptyTallies]
\* tallies[code] || 0
TallyGet(m, code) == IF code \in DOMAIN m THEN m[code] ELSE 0

WCode(code) == [k |-> "code", code |-> code]
WNone(kind) == [k |-> kind, code |-> ""]

Range(seq) == {seq[i] : i \in 1..Len(seq)}
\* Array.prototype.indexOf; 0 stands for -1
IndexOf(seq, x) ==
    IF x \in Range(seq) THEN CHOOSE i \in 1..Len(seq) :
                                 seq[i] = x /\ \A j \in 1..(i-1) : seq[j] # x
    ELSE 0

---------------------------------------------------------------------------
(* Strings *)

UpperChars ==
    <<"A","B","C","D","E","F","G","H","I","J","K","L","M",
      "N","O","P","Q","R","S","T","U","V","W","X","Y","Z">>
LowerChars ==
    <<"a","b","c","d","e","f","g","h","i","j","k","l","m",
      "n","o","p","q","r","s","t","u","v","w","x","y","z">>
DigitChars == <<"0","1","2","3","4","5","6","7","8","9">>
\* \s of the model: space and tab
WhiteChars == {" ", "\t"}
\* the class [’“”"'] ; the three curly quotes are named by code point
QuoteChars == {"U+2019", "U+201C", "U+201D", "\"", "'"}

toLowerCase(str) ==
    [i \in 1..Len(str) |->
        IF str[i] \in Range(UpperChars)
        THEN LowerChars[IndexOf(UpperChars, str[i])] ELSE str[i]]

\* .replace(/\s+/g, " ") : of a run of white characters the last one stays,
\* as a space
collapseWhite(str) ==
    LET pairs == [i \in 1..Len(str) |->
                     <<str[i], IF i < Len(str) THEN str[i + 1] ELSE "">>]
        EndsRun(p) == ~(p[1] \in WhiteChars /\ p[2] \in WhiteChars)
        kept == SelectSeq(pairs, EndsRun)
    IN [i \in 1..Len(kept) |->
           IF kept[i][1] \in WhiteChars THEN " " ELSE kept[i][1]]

\* .replace(/[’“”"']/g, "'")
unifyQuotes(str) ==
    [i \in 1..Len(str) |-> IF str[i] \in QuoteChars THEN "'" ELSE str[i]]

trim(str) ==
    LET inked == {i \in 1..Len(str) : str[i] \notin WhiteChars}
        first == CHOOSE i \in inked : \A j \in inked : i <= j
        last == CHOOSE i \in inked : \A j \in inked : j <= i
    IN IF inked = {} THEN <<>> ELSE SubSeq(str, first, last)

norm(str) == trim(unifyQuotes(collapseWhite(toLowerCase(str))))

\* String.prototype.includes
Includes(hay, needle) ==
    \E i \in 0..(Len(hay) - Len(needle)) :
        SubSeq(hay, i + 1, i + Len(needle)) = needle

\* /^[0-9]+$/.test(str)
IsDigits(str) == str # <<>> /\ \A i \in 1..Len(str) : str[i] \in Range(DigitChars)
\* Number(str) of a string of digits
RECURSIVE DigitsToNumber(_)
DigitsToNumber(str) ==
    IF str = <<>> THEN 0
    ELSE 10 * DigitsToNumber(SubSeq(str, 1, Len(str) - 1))
         + (IndexOf(DigitChars, str[Len(str)]) - 1)
\* String(n) of a natural number
RECURSIVE NumberToString(_)
NumberToString(num) ==
    IF num < 10 THEN <<DigitChars[num + 1]>>
    ELSE NumberToString(num \div 10) \o <<DigitChars[(num % 10) + 1]>>

---------------------------------------------------------------------------
(* Objects of the weight table *)

\* Object.prototype.hasOwnProperty.call(optionMap, label)
HasLabel(optionMap, label) == \E i \in 1..Len(optionMap) : optionMap[i].label = label
\* the entry  optionMap[label]  (the caller has tested HasLabel)
OptionAt(optionMap, label) ==
    optionMap[CHOOSE i \in 1..Len(optionMap) : optionMap[i].label = label]
\* optionMap[label] used as a condition
OptionTruthy(optionMap, label) ==
    HasLabel(optionMap, label) /\ OptionAt(optionMap, label).k \in {"list", "truthy"}

\* weightsMap[title]  (the caller has tested HasTitle)
HasTitle(entries, title) == \E i \in 1..Len(entries) : entries[i].title = title
TitleAt(entries, title) ==
    entries[CHOOSE i \in 1..Len(entries) : entries[i].title = title]

\* tallies kept outside the function: a pass starts from what the last left
StaleTallies == tallies.m

\* const tallies = {} : every pass starts from a fresh object
NewTallies == EmptyTallies

\* add storing 1 instead of incrementing: a code counts once however often
\* it is listed
addOnce(m, code) ==
    IF code = "" THEN m
    ELSE [x \in (DOMAIN m) \cup {code} |-> IF x = code THEN 1 ELSE m[x]]

\* add(code, 1)
add(m, code) ==
    IF code = "" THEN m
    ELSE [x \in (DOMAIN m) \cup {code} |-> IF x = code THEN TallyGet(m, code) + 1 ELSE m[x]]

\* codes.forEach((code) => add(code, 1))
RECURSIVE addCodes(_, _)
addCodes(m, codes) ==
    IF codes = <<>> THEN m ELSE addCodes(add(m, Head(codes)), Tail(codes))

---------------------------------------------------------------------------
(* QuizClient.jsx: scoreAnswers *)

\* title -> { id -> label } ; a later question of the same title, and a later
\* option of the same id, overwrite the earlier one
buildOptionLabelIndex(qs) ==
    LET titles == {qs[i].title : i \in 1..Len(qs)} \ {<<>>}
        lastQ(title) ==
            qs[CHOOSE i \in 1..Len(qs) :
                   /\ qs[i].title = title
                   /\ \A j \in (i+1)..Len(qs) : qs[j].title # title]
        optMap(q) ==
            [id \in {q.answers[j].id : j \in 1..Len(q.answers)} \ {<<>>} |->
                q.answers[CHOOSE j \in 1..Len(q.answers) :
                              /\ q.answers[j].id = id
                              /\ \A l \in (j+1)..Len(q.answers) :
                                     q.answers[l].id # id].label]
    IN [title \in titles |-> optMap(lastQ(title))]

\* new Map(Object.entries(weightsMap).map(([t, map]) => [norm(t), {title: t, map}]))
\* a Map keeps a key at the place of its first insertion, with its last value
RECURSIVE weightsNormFrom(_, _)
weightsNormFrom(acc, rest) ==
    IF rest = <<>> THEN acc
    ELSE LET item == [kn |-> norm(Head(rest).title), obj |-> Head(rest)]
         IN weightsNormFrom(
                IF \E i \in 1..Len(acc) : acc[i].kn = item.kn
                THEN [i \in 1..Len(acc) |->
                         IF acc[i].kn = item.kn THEN item ELSE acc[i]]
                ELSE Append(acc, item),
                Tail(rest))
weightsNormOf(entries) == weightsNormFrom(<<>>, entries)

NoEntry == [found |-> FALSE, obj |-> NullTitleEntry(<<>>)]

\* findWeightsForTitle ending in  return first entry  instead of  return null
findWeightsOrFirst(wn, qTitle) ==
    LET n == norm(qTitle)
        exact == {i \in 1..Len(wn) : wn[i].kn = n}
        near == {i \in 1..Len(wn) : Includes(n, wn[i].kn) \/ Includes(wn[i].kn, n)}
        first(S) == CHOOSE i \in S : \A j \in S : i <= j
    IN IF exact # {} THEN [found |-> TRUE, obj |-> wn[first(exact)].obj]
       ELSE IF near # {} THEN [found |-> TRUE, obj |-> wn[first(near)].obj]
       ELSE IF wn # <<>> THEN [found |-> TRUE, obj |-> wn[1].obj]
       ELSE NoEntry

findWeightsForTitle(wn, qTitle) ==
    LET n == norm(qTitle)
        exact == {i \in 1..Len(wn) : wn[i].kn = n}
        near == {i \in 1..Len(wn) : Includes(n, wn[i].kn) \/ Includes(wn[i].kn, n)}
        first(S) == CHOOSE i \in S : \A j \in S : i <= j
    IN IF exact # {} THEN [found |-> TRUE, obj |-> wn[first(exact)].obj]
       ELSE IF near # {} THEN [found |-> TRUE, obj |-> wn[first(near)].obj]
       ELSE NoEntry

\* sliderBucketLabel with the middle value falling into the high bucket
sliderBucketLabelHighMid(optionMap, n) ==
    IF optionMap = <<>> THEN [has |-> FALSE, label |-> <<>>]
    ELSE IF n <= 2 THEN [has |-> TRUE, label |-> optionMap[1].label]
    ELSE [has |-> TRUE, label |-> optionMap[Len(optionMap)].label]

sliderBucketLabel(optionMap, n) ==
    IF optionMap = <<>> THEN [has |-> FALSE, label |-> <<>>]
    ELSE IF n <= 2 THEN [has |-> TRUE, label |-> optionMap[1].label]
    ELSE IF n >= 4 THEN [has |-> TRUE, label |-> optionMap[Len(optionMap)].label]
    ELSE [has |-> FALSE, label |-> <<>>]

\* optionMapNorm.get(key) || dflt : the Map holds, for a normalised label, the
\* last label normalising to it; an empty label is falsy
optionMapNormGetOr(optionMap, key, dflt) ==
    LET hits == {i \in 1..Len(optionMap) : norm(optionMap[i].label) = key}
        last == CHOOSE i \in hits : \A j \in hits : j <= i
    IN IF hits # {} /\ optionMap[last].label # <<>>
       THEN optionMap[last].label ELSE dflt

\* idToLabel looking the normalised value up before the option id
idToLabelNormFirst(optionMap, idx, vStr) ==
    IF HasLabel(optionMap, vStr) THEN vStr
    ELSE IF optionMapNormGetOr(optionMap, norm(vStr), <<>>) # <<>>
         THEN optionMapNormGetOr(optionMap, norm(vStr), vStr)
    ELSE IF vStr \in DOMAIN idx /\ idx[vStr] # <<>> /\ OptionTruthy(optionMap, idx[vStr])
         THEN idx[vStr]
         ELSE vStr

idToLabel(optionMap, idx, vStr) ==
    IF HasLabel(optionMap, vStr) THEN vStr
    ELSE IF vStr \in DOMAIN idx /\ idx[vStr] # <<>> /\ OptionTruthy(optionMap, idx[vStr])
         THEN idx[vStr]
         ELSE optionMapNormGetOr(optionMap, norm(vStr), vStr)

\* idToLabel, then  optionMapNorm.get(norm(lab)) || lab
resolveLabel(optionMap, idx, vStr) ==
    LET lab0 == idToLabel(optionMap, idx, vStr)
    IN optionMapNormGetOr(optionMap, norm(lab0), lab0)

\* the labels of  chosen  that are present in optionMap
labelsOf(optionMap, idx, chosen) ==
    IF chosen.k = "arr"
    THEN LET resolved == [i \in 1..Len(chosen.a) |->
                             resolveLabel(optionMap, idx, chosen.a[i])]
             Present(lab) == OptionTruthy(optionMap, lab)
         IN SelectSeq(resolved, Present)
    ELSE IF chosen.k = "num" \/ (chosen.k = "str" /\ IsDigits(chosen.s))
    THEN LET n == IF chosen.k = "num" THEN chosen.n ELSE DigitsToNumber(chosen.s)
             lab == sliderBucketLabel(optionMap, n)
         IN IF lab.has /\ lab.label # <<>> /\ OptionTruthy(optionMap, lab.label)
            THEN <<lab.label>> ELSE <<>>
    ELSE LET lab == resolveLabel(optionMap, idx, chosen.s)
         IN IF OptionTruthy(optionMap, lab) THEN <<lab>> ELSE <<>>

\* labels.forEach((lab) => (optionMap[lab] || []).forEach((code) => add(code, 1)))
\* a value that is truthy and no list has no forEach: the TypeError ends the
\* question's callback in its catch, and what was added before stays
RECURSIVE addLabels(_, _, _)
addLabels(m, labels, optionMap) ==
    IF labels = <<>> THEN m
    ELSE LET e == OptionAt(optionMap, Head(labels))
         IN IF e.k = "truthy" THEN m
            ELSE addLabels(addCodes(m, e.codes), Tail(labels), optionMap)

\* the body of  (questions || []).forEach((q) => { try { ... } catch { } })
scoreQuestion(m, q, ans, wn, labelIndex) ==
    IF q.title = <<>> THEN m
    ELSE LET found == findWeightsForTitle(wn, q.title)
             optionMap == found.obj.map
             byTitle == Get(ans, q.title)
             chosen == IF byTitle.k = "null" THEN Get(ans, q.id) ELSE byTitle
         IN IF ~found.found THEN m
            \* Object.keys(null) throws: caught, the question is skipped
            ELSE IF found.obj.k = "null" THEN m
            ELSE IF chosen.k = "null" THEN m
            ELSE addLabels(m, labelsOf(optionMap, labelIndex[q.title], chosen),
                           optionMap)

RECURSIVE scoreQuestions(_, _, _, _, _)
scoreQuestions(m, qs, ans, wn, labelIndex) ==
    IF qs = <<>> THEN m
    ELSE scoreQuestions(scoreQuestion(m, Head(qs), ans, wn, labelIndex),
                        Tail(qs), ans, wn, labelIndex)

scoreAnswers(ans, weightsMap, qs) ==
    IF ans.k = "null" \/ weightsMap.k = "null" THEN TObj(NewTallies)
    ELSE TObj(scoreQuestions(NewTallies, qs, ans.m, weightsNormOf(weightsMap.m),
                             buildOptionLabelIndex(qs)))

---------------------------------------------------------------------------
(* QuizClient.jsx: pickWinner *)

\* leadersFrom with  max = v  left out: max stays at -Infinity
RECURSIVE leadersFromStaleMax(_, _, _, _)
leadersFromStaleMax(max, leaders, rest, m) ==
    IF rest = <<>> THEN leaders
    ELSE LET v == TallyGet(m, Head(rest))
         IN IF v > max THEN leadersFromStaleMax(max, <<Head(rest)>>, Tail(rest), m)
            ELSE IF v = max
                 THEN leadersFromStaleMax(max, Append(leaders, Head(rest)), Tail(rest), m)
                 ELSE leadersFromStaleMax(max, leaders, Tail(rest), m)

\* order.forEach((code) => { v > max: leaders = [code]; v === max: push })
\* max starts at -Infinity; tallies are counts, so -1 is below every one
RECURSIVE leadersFrom(_, _, _, _)
leadersFrom(max, leaders, rest, m) ==
    IF rest = <<>> THEN leaders
    ELSE LET v == TallyGet(m, Head(rest))
         IN IF v > max THEN leadersFrom(v, <<Head(rest)>>, Tail(rest), m)
            ELSE IF v = max
                 THEN leadersFrom(max, Append(leaders, Head(rest)), Tail(rest), m)
                 ELSE leadersFrom(max, leaders, Tail(rest), m)

\* (priMap[opt] || [])[0] ; "" stands for undefined. The first character of
\* a string value is no product code, the [0] of a number is undefined
firstCode(priMap, opt) ==
    IF HasLabel(priMap, opt) /\ OptionAt(priMap, opt).k = "list"
       /\ OptionAt(priMap, opt).codes # <<>>
    THEN OptionAt(priMap, opt).codes[1] ELSE ""

\* priorityMatch keeping the last matching selection instead of returning
\* at the first
RECURSIVE priorityMatchLast(_, _, _)
priorityMatchLast(priAns, priMap, leaders) ==
    IF priAns = <<>> THEN ""
    ELSE LET match == firstCode(priMap, priAns[Len(priAns)])
         IN IF match # "" /\ match \in Range(leaders) THEN match
            ELSE priorityMatchLast(SubSeq(priAns, 1, Len(priAns) - 1), priMap, leaders)

\* for (const opt of priAns) { if (match && leaders.includes(match)) return match }
RECURSIVE priorityMatch(_, _, _)
priorityMatch(priAns, priMap, leaders) ==
    IF priAns = <<>> THEN ""
    ELSE LET match == firstCode(priMap, Head(priAns))
         IN IF match # "" /\ match \in Range(leaders) THEN match
            ELSE priorityMatch(Tail(priAns), priMap, leaders)

\* stableFirst with the comparator reversed (b before a)
stableLast(leaders, order) ==
    CHOOSE c \in Range(leaders) :
        \A d \in Range(leaders) : IndexOf(order, c) >= IndexOf(order, d)

\* leaders.sort((a, b) => order.indexOf(a) - order.indexOf(b))[0]
stableFirst(leaders, order) ==
    CHOOSE c \in Range(leaders) :
        \A d \in Range(leaders) : IndexOf(order, c) <= IndexOf(order, d)

\* the tie-break of two or more leaders: priorities first, then the stable
\* product order
tieBreak(leaders, ans, weightsMap, order) ==
    LET hasPriMap == /\ weightsMap.k = "obj"
                     /\ HasTitle(weightsMap.m, PRIORITIES_TITLE)
                     /\ TitleAt(weightsMap.m, PRIORITIES_TITLE).k = "map"
        priMap == TitleAt(weightsMap.m, PRIORITIES_TITLE).map
        priAns == IF ans.k = "obj" THEN Get(ans.m, PRIORITIES_TITLE) ELSE NullV
        match == IF hasPriMap /\ priAns.k = "arr" /\ priAns.a # <<>>
                 THEN priorityMatch(priAns.a, priMap, leaders) ELSE ""
    IN IF match # "" THEN match ELSE stableFirst(leaders, order)

pickWinner(t, ans, weightsMap) ==
    LET order == PRODUCT_ORDER
        \* tallies?.[code] : a null tallies object reads as all zero
        m == IF t.k = "obj" THEN t.m ELSE EmptyTallies
        leaders == leadersFrom(-1, <<>>, order, m)
    IN IF order = <<>> THEN WNone("null")
       ELSE IF leaders = <<>> THEN WNone("null")
       ELSE IF Len(leaders) = 1 THEN WCode(leaders[1])
       ELSE WCode(tieBreak(leaders, ans, weightsMap, order))

---------------------------------------------------------------------------
(* QuizResults.jsx *)

\* mirrorIds without the test  out[title] == null : a title value is overwritten
RECURSIVE mirrorIdsOverwriting(_, _)
mirrorIdsOverwriting(out, qs) ==
    IF qs = <<>> THEN out
    ELSE LET qid == Head(qs).id
             title == Head(qs).title
         IN IF qid = <<>> \/ title = <<>> THEN mirrorIdsOverwriting(out, Tail(qs))
            ELSE IF Get(out, qid).k # "null"
                 THEN mirrorIdsOverwriting(Put(out, title, Get(out, qid)), Tail(qs))
                 ELSE mirrorIdsOverwriting(out, Tail(qs))

\* mirrorIds mirroring in both directions: title to id as well
RECURSIVE mirrorBothWays(_, _)
mirrorBothWays(out, qs) ==
    IF qs = <<>> THEN out
    ELSE LET qid == Head(qs).id
             title == Head(qs).title
         IN IF qid = <<>> \/ title = <<>> THEN mirrorBothWays(out, Tail(qs))
            ELSE IF Get(out, qid).k # "null" /\ Get(out, title).k = "null"
                 THEN mirrorBothWays(Put(out, title, Get(out, qid)), Tail(qs))
            ELSE IF Get(out, title).k # "null" /\ Get(out, qid).k = "null"
                 THEN mirrorBothWays(Put(out, qid, Get(out, title)), Tail(qs))
                 ELSE mirrorBothWays(out, Tail(qs))

\* for (const q of questions) { ... out[title] = out[qid] }
RECURSIVE mirrorIds(_, _)
mirrorIds(out, qs) ==
    IF qs = <<>> THEN out
    ELSE LET qid == Head(qs).id
             title == Head(qs).title
         IN IF qid = <<>> \/ title = <<>> THEN mirrorIds(out, Tail(qs))
            ELSE IF Get(out, qid).k # "null" /\ Get(out, title).k = "null"
                 THEN mirrorIds(Put(out, title, Get(out, qid)), Tail(qs))
                 ELSE mirrorIds(out, Tail(qs))

\* input: the argument object as the call leaves it; out: the object returned.
\* out is a fresh copy ({ ...(answers || {}) }), so the writes do not reach
\* the argument
normaliseAnswersByTitle(ans, qs) ==
    [input |-> ans,
     out |-> AObj(mirrorIds(IF ans.k = "null" THEN EmptyObj ELSE ans.m, qs))]

\* the property key an answer value is used as: String(chosen)
keyOf(chosen) == IF chosen.k = "num" THEN NumberToString(chosen.n) ELSE chosen.s

\* (optionMap[opt] || []).forEach((code) => add(code, 1)) ; a truthy value
\* that is no list has no forEach, and nothing catches the TypeError
QR_addOption(t, optionMap, opt) ==
    IF t.k = "throw" THEN t
    ELSE IF ~HasLabel(optionMap, opt) \/ OptionAt(optionMap, opt).k = "falsy" THEN t
    ELSE IF OptionAt(optionMap, opt).k = "truthy" THEN TThrow
    ELSE TObj(addCodes(t.m, OptionAt(optionMap, opt).codes))

RECURSIVE QR_addOptions(_, _, _)
QR_addOptions(t, optionMap, opts) ==
    IF opts = <<>> \/ t.k = "throw" THEN t
    ELSE QR_addOptions(QR_addOption(t, optionMap, Head(opts)), optionMap, Tail(opts))

\* Object.keys(weightsMap || {}).forEach((title) => { ... })
RECURSIVE QR_scoreTitles(_, _, _)
QR_scoreTitles(t, entries, ans) ==
    IF entries = <<>> \/ t.k = "throw" THEN t
    ELSE LET optionMap == Head(entries).map   \* weightsMap[title] || {}
             chosen == Get(ans, Head(entries).title)
             next == IF chosen.k = "arr" THEN QR_addOptions(t, optionMap, chosen.a)
                     ELSE IF chosen.k # "null"
                          THEN QR_addOption(t, optionMap, keyOf(chosen))
                          ELSE t
         IN QR_scoreTitles(next, Tail(entries), ans)

QR_scoreAnswers(ansByTitle, weightsMap) ==
    \* answersByTitle[title] of a null object throws at the first title
    IF ansByTitle.k = "null" /\ weightsMap.m # <<>> THEN TThrow
    ELSE QR_scoreTitles(TObj(NewTallies), weightsMap.m, ansByTitle.m)

RECURSIVE QR_leadersFrom(_, _, _, _)
QR_leadersFrom(max, leaders, rest, m) ==
    IF rest = <<>> THEN leaders
    ELSE LET v == TallyGet(m, Head(rest))
         IN IF v > max THEN QR_leadersFrom(v, <<Head(rest)>>, Tail(rest), m)
            ELSE IF v = max
                 THEN QR_leadersFrom(max, Append(leaders, Head(rest)), Tail(rest), m)
                 ELSE QR_leadersFrom(max, leaders, Tail(rest), m)

QR_tieBreak(leaders, ans, weightsMap) ==
    LET hasPriMap == /\ weightsMap.k = "obj"
                     /\ HasTitle(weightsMap.m, PRIORITIES_TITLE)
                     /\ TitleAt(weightsMap.m, PRIORITIES_TITLE).k = "map"
        priMap == TitleAt(weightsMap.m, PRIORITIES_TITLE).map
        priAns == IF ans.k = "obj" THEN Get(ans.m, PRIORITIES_TITLE) ELSE NullV
        match == IF hasPriMap /\ priAns.k = "arr" /\ priAns.a # <<>>
                 THEN priorityMatch(priAns.a, priMap, leaders) ELSE ""
    IN IF match # "" THEN WCode(match)
       ELSE IF leaders = <<>> THEN WNone("undefined")
       ELSE WCode(stableFirst(leaders, PRODUCT_ORDER))

QR_pickWinner(t, ansByTitle, weightsMap) ==
    \* tallies[code] : reading a property of null throws a TypeError
    IF t.k # "obj" THEN WNone("throw")
    ELSE LET leaders == QR_leadersFrom(-1, <<>>, PRODUCT_ORDER, t.m)
         IN IF Len(leaders) = 1 THEN WCode(leaders[1])
            ELSE QR_tieBreak(leaders, ansByTitle, weightsMap)

---------------------------------------------------------------------------
(* Inputs of the model *)

strQ1 == <<"q","1">>
strQ2 == <<"q","2">>
strQ3 == <<"q","3">>
strGoal == <<"G","o","a","l">>
strGoalDrift == <<" ","g","o","a","l">>
strStress == <<"S","t","r","e","s","s">>
strA == <<"a">>
strB == <<"b">>
strP1 == <<"p","1">>
strP2 == <<"p","2">>
strEnergy == <<"E","n","e","r","g","y">>
strSleep == <<"S","l","e","e","p">>
strSleepLoud == <<"S","L","E","E","P"," ">>
strCalm == <<"C","a","l","m">>
strOther == <<"z","z">>
strLow == <<"L","o","w">>
strMid == <<"M","i","d">>
strHigh == <<"H","i","g","h">>

Question(id, title, type, options) ==
    [id |-> id, title |-> title, type |-> type, answers |-> options]
Option(id, label) == [id |-> id, label |-> label]

QGoal == Question(strQ1, strGoal, "single",
                  <<Option(strA, strEnergy), Option(strB, strSleep)>>)
QStress == Question(strQ2, strStress, "slider", <<>>)
QPriorities == Question(strQ3, PRIORITIES_TITLE, "single",
                        <<Option(strP1, strEnergy), Option(strP2, strSleep)>>)

\* all sequences over S of length at most n
SeqsUpTo(S, n) == UNION {[1..l -> S] : l \in 0..n}

\* the ways a value is recorded for a question: under its id, its title, both
Recorded(q, v) ==
    {(q.id :> v), (q.title :> v), (q.id :> v) @@ (q.title :> v)}

Merge(f, g) == f @@ g

\* weight entries of the Goal question
GoalWeights ==
    {TitleEntry(strGoal, <<OptionEntry(strEnergy, <<"Eic">>),
                           OptionEntry(strSleep, <<"Rnp">>)>>),
     TitleEntry(strGoal, <<OptionEntry(strEnergy, <<"Rnp">>),
                           OptionEntry(strSleep, <<"Rnp", "Epi">>)>>),
     TitleEntry(strGoalDrift, <<OptionEntry(strSleep, <<"Zzz", "Mjb">>),
                                OptionEntry(strEnergy, <<>>)>>)}
\* weight entries of the slider question, of one, two and three keys
StressWeights ==
    {TitleEntry(strStress, <<OptionEntry(strLow, <<"Epi">>),
                             OptionEntry(strHigh, <<"Rnp">>)>>),
     TitleEntry(strStress, <<OptionEntry(strLow, <<"Epi">>),
                             OptionEntry(strMid, <<"Eic">>),
                             OptionEntry(strHigh, <<"Rnp", "Mjb">>)>>),
     TitleEntry(strStress, <<OptionEntry(strMid, <<"Eic">>)>>)}
PrioritiesWeights ==
    {TitleEntry(PRIORITIES_TITLE, <<OptionEntry(strEnergy, <<"Rnp">>),
                                    OptionEntry(strSleep, <<"Epi", "Eic">>),
                                    OptionEntry(strCalm, <<>>)>>),
     TitleEntry(PRIORITIES_TITLE, <<OptionEntry(strEnergy, <<"Zzz">>),
                                    OptionEntry(strSleep, <<"Rnp">>),
                                    NonListEntry(strCalm, "truthy")>>),
     TitleEntry(PRIORITIES_TITLE, <<OptionEntry(strEnergy, <<"", "Eic">>),
                                    NonListEntry(strSleep, "falsy"),
                                    OptionEntry(strCalm, <<"Epi">>)>>),
     NullTitleEntry(PRIORITIES_TITLE)}

GoalValues ==
    {StrV(strA), StrV(strB), StrV(strEnergy), StrV(strSleepLoud), StrV(strOther)}
    \cup {ArrV(sel) : sel \in SeqsUpTo({strA, strEnergy, strSleep}, MaxSelected)}
StressValues ==
    {NumV(n) : n \in 1..5} \cup {StrV(<<DigitChars[n + 1]>>) : n \in 1..5}

Scenario(qs, w, a) == [questions |-> qs, weights |-> w, answers |-> a]

\* a choice question scored against its weights
ChoiceScenarios ==
    {Scenario(qs, WObj(<<g>>), AObj(a)) :
        qs \in {<<QGoal>>, <<QStress, QGoal>>},
        g \in GoalWeights,
        a \in UNION {Recorded(QGoal, v) : v \in GoalValues}}
\* a slider question scored against its weights
SliderScenarios ==
    {Scenario(qs, WObj(<<s>>), AObj(a)) :
        qs \in {<<QStress>>, <<QGoal, QStress>>},
        s \in StressWeights,
        a \in UNION {Recorded(QStress, v) : v \in StressValues}}
\* several questions answered, missing data
MixedScenarios ==
    {Scenario(<<QGoal, QStress, QPriorities>>, w, a) :
        w \in {WNull, WObj(<<>>)}
              \cup {WObj(<<g, s, p>>) : g \in GoalWeights, s \in StressWeights,
                                        p \in PrioritiesWeights},
        a \in {ANull, AObj(EmptyObj),
               AObj((strQ1 :> StrV(strA)) @@ (strQ2 :> NumV(4))
                    @@ (strQ3 :> ArrV(<<strP2, strP1>>))),
               AObj((strGoal :> StrV(strSleep)) @@ (strStress :> NumV(1))
                    @@ (PRIORITIES_TITLE :> ArrV(<<strSleep, strEnergy>>)))}}
\* two questions, each with or without weights, answered or not, by an
\* option id, by a string that names no option, by the middle of the scale
PairScenarios ==
    {Scenario(<<QGoal, QStress>>, WObj(w), AObj(Merge(a, b))) :
        w \in {<<g>> : g \in GoalWeights} \cup {<<s>> : s \in StressWeights}
              \cup {<<g, s>> : g \in GoalWeights, s \in StressWeights},
        a \in {EmptyObj, strQ1 :> StrV(strA), strQ1 :> StrV(strOther),
               strQ1 :> ArrV(<<>>)},
        b \in {EmptyObj, strQ2 :> NumV(1), strQ2 :> NumV(3)}}
\* a question without title, and selections of a label whose weight value is
\* no list of codes
QNoTitle == Question(strQ2, <<>>, "single", <<Option(strA, strEnergy)>>)
MalformedScenarios ==
    {Scenario(<<QNoTitle, QGoal, QPriorities>>, WObj(<<g, p>>),
              AObj((strQ2 :> StrV(strA)) @@ (strGoal :> StrV(strEnergy))
                   @@ (PRIORITIES_TITLE :> v))) :
        g \in GoalWeights, p \in PrioritiesWeights,
        v \in {StrV(strCalm), ArrV(<<strCalm>>), ArrV(<<strCalm, strSleep>>),
               ArrV(<<strSleep, strCalm>>), ArrV(<<strEnergy>>)}}
Scenarios ==
    ChoiceScenarios \cup SliderScenarios \cup MixedScenarios \cup PairScenarios
    \cup MalformedScenarios

NoRun == [k |-> "none", tallies |-> TNull, winner |-> WNone("null")]
Given(qs, w, a) == [questions |-> qs, weights |-> w, answers |-> a]

\* the component with both loads settled, showing its results: what the
\* scoring pass is run in
LoadsSettled ==
    /\ kiosk = FALSE
    /\ idle = FALSE
    /\ loading = FALSE
    /\ error = FALSE
    /\ step = Len(questions) + 1
    /\ qload = "loaded"
    /\ wload = "loaded"
    /\ cancelled = FALSE
    /\ weightsError = FALSE

---------------------------------------------------------------------------
(* The scoring pass *)

Init ==
    /\ \E sc \in Scenarios :
          /\ questions = sc.questions
          /\ weights = sc.weights
          /\ answers = sc.answers
    /\ impl \in {"client", "results"}
    /\ answersByTitle = ANull
    /\ renormalised = ANull
    /\ tallies = TNull
    /\ winner = WNone("null")
    /\ prevRun = NoRun
    /\ given = Given(questions, weights, answers)
    /\ runs = 1
    /\ pc = "start"
    /\ LoadsSettled

\* QuizClient.jsx:  const tallies = scoreAnswers(answers, weights, questions)
ClientScore ==
    /\ pc = "start" /\ impl = "client"
    /\ tallies' = scoreAnswers(answers, weights, questions)
    /\ pc' = "scored"
    /\ UNCHANGED <<questions, weights, answers, answersByTitle, renormalised,
                   winner, prevRun, given, runs, impl>>
    /\ UNCHANGED flowVars

\* QuizClient.jsx:  const winner = pickWinner(tallies, answers, weights)
ClientPick ==
    /\ pc = "scored" /\ impl = "client"
    /\ winner' = pickWinner(tallies, answers, weights)
    /\ pc' = "done"
    /\ UNCHANGED <<questions, weights, answers, answersByTitle, renormalised,
                   tallies, prevRun, given, runs, impl>>
    /\ UNCHANGED flowVars

\* QuizResults.jsx:  answersByTitle = normaliseAnswersByTitle(answers, questions)
ResultsNormalise ==
    /\ pc = "start" /\ impl = "results"
    /\ LET r == normaliseAnswersByTitle(answers, questions)
       IN /\ answers' = r.input
          /\ answersByTitle' = r.out
    /\ pc' = "normalised"
    /\ UNCHANGED <<questions, weights, renormalised, tallies, winner, prevRun,
                   given, runs, impl>>
    /\ UNCHANGED flowVars

\* normaliseAnswersByTitle applied to its own result
Renormalise ==
    /\ pc = "normalised"
    /\ LET r == normaliseAnswersByTitle(answersByTitle, questions)
       IN /\ answersByTitle' = r.input
          /\ renormalised' = r.out
    /\ pc' = "renormalised"
    /\ UNCHANGED <<questions, weights, answers, tallies, winner, prevRun,
                   given, runs, impl>>
    /\ UNCHANGED flowVars

\* QuizResults.jsx:  tallies = scoreAnswers(answersByTitle, weights)
ResultsScore ==
    /\ pc = "normalised" /\ impl = "results"
    /\ tallies' = QR_scoreAnswers(answersByTitle, weights)
    /\ pc' = "scored"
    /\ UNCHANGED <<questions, weights, answers, answersByTitle, renormalised,
                   winner, prevRun, given, runs, impl>>
    /\ UNCHANGED flowVars

\* QuizResults.jsx:  winner = pickWinner(tallies, answersByTitle, weights)
\* (not reached when scoreAnswers threw: the render has failed)
ResultsPick ==
    /\ pc = "scored" /\ impl = "results" /\ tallies.k # "throw"
    /\ winner' = QR_pickWinner(tallies, answersByTitle, weights)
    /\ pc' = "done"
    /\ UNCHANGED <<questions, weights, answers, answersByTitle, renormalised,
                   tallies, prevRun, given, runs, impl>>
    /\ UNCHANGED flowVars

\* the pass is run again on the inputs as the last pass left them
Rerun ==
    /\ pc = "done" /\ runs < MaxRuns
    /\ prevRun' = [k |-> "run", tallies |-> tallies, winner |-> winner]
    /\ runs' = runs + 1
    /\ pc' = "start"
    /\ UNCHANGED <<questions, weights, answers, answersByTitle, renormalised,
                   tallies, winner, given, impl>>
    /\ UNCHANGED flowVars

Next ==
    \/ ClientScore
    \/ ClientPick
    \/ ResultsNormalise
    \/ ResultsScore
    \/ ResultsPick
    \/ Rerun

Spec == Init /\ [][Next]_vars

---------------------------------------------------------------------------
(* QuizClient.jsx: the component *)

strSpecificDiet == <<"s","p","e","c","i","f","i","c"," ","d","i","e","t">>
strWhichDiet == <<"w","h","i","c","h"," ","d","i","e","t">>
strSpecificDietTitle == <<"S","p","e","c","i","f","i","c"," ","d","i","e","t","?">>
strWhichDietTitle == <<"W","h","i","c","h"," ","d","i","e","t","?">>
strNoLower == <<"n","o">>
strNo == <<"N","o">>
strYes == <<"Y","e","s">>
strVegan == <<"V","e","g","a","n">>
strD1 == <<"d","1">>
strD2 == <<"d","2">>
strX == <<"x">>
strY == <<"y">>
strT == <<"T">>
strU == <<"U">>
strMulti == <<"m","u","l","t","i">>
strScale == <<"s","c","a","l","e">>
strSlider == <<"s","l","i","d","e","r">>
strRange == <<"r","a","n","g","e">>
strLikert == <<"l","i","k","e","r","t">>
strGoalId == <<"g","o","a","l">>
strFallbackTitle == <<"W","h","a","t","'","s"," ","y","o","u","r"," ","p","r","i","m","a","r","y"," ","g","o","a","l","?">>
strImmunity == <<"I","m","m","u","n","i","t","y">>
strSkinHair == <<"S","k","i","n"," ","&"," ","H","a","i","r">>

\* a question of the fetched JSON: id and title may be missing (NullV), type
\* is any string, options is a list of strings (kind "strings"), a list of
\* {id, label} objects (kind "objects") or missing (kind "none")
RawQuestion(id, title, type, kind, options, minLabel) ==
    [id |-> id, title |-> title, type |-> type, kind |-> kind,
     options |-> options, minLabel |-> minLabel]

\* raw.every(string): {id: s, label: s} ; objects: {id, label} ; else []
normalizeOptionsFromAny(q) ==
    IF q.kind = "strings"
    THEN [i \in 1..Len(q.options) |-> Option(q.options[i], q.options[i])]
    ELSE IF q.kind = "objects" /\ q.options # <<>> THEN q.options
    ELSE <<>>

\* typeMap[t] || inferred
questionType(q, opts) ==
    LET t == toLowerCase(q.type)
    IN IF t \in {strSlider, strRange, strScale, strLikert} THEN "slider"
       ELSE IF t = <<>> /\ opts = <<>> /\ q.minLabel THEN "slider"
       ELSE "single"

\* src.map((q, i) => ({ id: String(q.id ?? `q_${i}`), title: q.title ??
\* `Question ${i + 1}`, type: qtype, answers: opts, ... }))
transformed(src) ==
    [i \in 1..Len(src) |->
        LET opts == normalizeOptionsFromAny(src[i])
        IN Question(
               IF src[i].id.k = "null"
               THEN <<"q","_">> \o NumberToString(i - 1) ELSE src[i].id.s,
               IF src[i].title.k = "null"
               THEN <<"Q","u","e","s","t","i","o","n"," ">> \o NumberToString(i)
               ELSE src[i].title.s,
               questionType(src[i], opts),
               opts)]

\* FALLBACK is used as it is written: it has  options , a list of strings,
\* and no  answers  (read as undefined, and as [] where the code says || [])
FALLBACK ==
    <<[id |-> strGoalId, title |-> strFallbackTitle, type |-> "single",
       answers |-> <<>>,
       options |-> <<strEnergy, strImmunity, strSkinHair, strSleep>>]>>

\* required: qtype === "slider" ? false : true ; FALLBACK: required: true
required(q) == q.type # "slider"

\* Flow guards
total == Len(questions)
isLoading == total = 0
\* isResults with  step >= total : true on the last question already
isResultsFromLast == total > 0 /\ step >= total

isResults == total > 0 /\ step > total
hasCurrent == step >= 1 /\ step <= total
current == questions[step]

\* useEffect: if (step < 0 || step > maxStep) setStep(0)
guardStep(s, n) == IF n = 0 THEN s ELSE IF s < 0 \/ s > n + 1 THEN 0 ELSE s

\* the render guards: which of the views is rendered
LoadingView == isLoading
AttractView == ~isLoading /\ kiosk /\ idle /\ ~isResults
MainView == ~isLoading /\ ~isResults /\ ~idle
ResultsView == ~isLoading /\ isResults
LandingShown == MainView /\ step = 0
QuestionShown == MainView /\ step # 0 /\ ~loading /\ hasCurrent

\* the results body: "Loading scoring data..." while the weights object has
\* no key, else the pass
ScoringShown == weights.k = "obj" /\ weights.m # <<>>

\* answers[current.id] ?? answers[current.title]
answerOf(ans, q) ==
    IF Get(ans, q.id).k # "null" THEN Get(ans, q.id) ELSE Get(ans, q.title)

\* Boolean(v) / v.length > 0
truthy(v) ==
    CASE v.k = "null" -> FALSE
      [] v.k = "str" -> v.s # <<>>
      [] v.k = "num" -> v.n # 0
      [] v.k = "arr" -> TRUE

canContinue ==
    IF step = 0 THEN TRUE
    ELSE IF ~hasCurrent THEN TRUE
    ELSE IF current.type = "slider" THEN TRUE
    ELSE IF ~required(current) THEN TRUE
    ELSE LET v == answerOf(answers.m, current)
         IN IF v.k = "arr" THEN v.a # <<>> ELSE truthy(v)

\* new Set(Array.isArray(prev[destKey]) ? prev[destKey] : [])
asSet(v) == IF v.k = "arr" THEN v.a ELSE <<>>
\* set.has(value) ? set.delete(value) : set.add(value)
toggle(sel, value) ==
    IF value \in Range(sel) THEN SelectSeq(sel, LAMBDA x : x # value)
    ELSE Append(sel, value)
\* if (set.has(value)) set.delete(value); else if (set.size < 2) set.add(value)
toggleLimit2(sel, value) ==
    IF value \in Range(sel) THEN SelectSeq(sel, LAMBDA x : x # value)
    ELSE IF Len(sel) < 2 THEN Append(sel, value)
    ELSE sel

\* saveVal(destKey): writes next[destKey] from prev[destKey]
saveVal(prev, next, destKey, value, mode) ==
    IF destKey = <<>> THEN next
    ELSE IF mode = "multi"
         THEN Put(next, destKey, ArrV(toggle(asSet(Get(prev, destKey)), value.s)))
    ELSE IF mode = "multi-limit-2"
         THEN Put(next, destKey, ArrV(toggleLimit2(asSet(Get(prev, destKey)), value.s)))
    ELSE Put(next, destKey, value)

\* setAnswer storing the bare value under the title-key whatever the mode
setAnswerTitleSingle(prev, qid, titleKey, value, mode) ==
    LET byId == saveVal(prev, prev, qid, value, mode)
    IN saveVal(prev, byId, titleKey, value, "single")

\* setAnswers((prev) => { saveVal(qid); if (titleKey) saveVal(titleKey) })
setAnswer(prev, qid, titleKey, value, mode) ==
    LET byId == saveVal(prev, prev, qid, value, mode)
    IN saveVal(prev, byId, titleKey, value, mode)

\* q?.title && String(q.title).toLowerCase().includes(substr.toLowerCase())
titleIncludes(q, substr) ==
    q.title # <<>> /\ Includes(toLowerCase(q.title), toLowerCase(substr))
\* String(val ?? "").toLowerCase() === "no"
isNo(v) == v.k = "str" /\ toLowerCase(v.s) = strNoLower
isSpecificDiet(q) == titleIncludes(q, strSpecificDiet)
isWhichDiet(q) == titleIncludes(q, strWhichDiet)

\* the updater of goNext
nextStepOf(s) ==
    IF s >= total THEN total + 1
    ELSE LET skip == /\ s >= 1
                     /\ isSpecificDiet(questions[s])
                     /\ isNo(answerOf(answers.m, questions[s]))
                     /\ s + 1 <= total
                     /\ isWhichDiet(questions[s + 1])
             nextStep == IF skip THEN s + 2 ELSE s + 1
         IN IF nextStep > total THEN total + 1 ELSE nextStep

\* the updater of goBack: Math.max(0, s - 1)
prevStepOf(s) == IF s - 1 > 0 THEN s - 1 ELSE 0

---------------------------------------------------------------------------
(* QuizClient.jsx and QuizResults.jsx: loads, events, teardown *)

\* what the questions URL can deliver
RawDiet ==
    <<RawQuestion(StrV(strD1), StrV(strSpecificDietTitle), <<>>, "strings",
                  <<strYes, strNo>>, FALSE),
      RawQuestion(StrV(strD2), StrV(strWhichDietTitle), strMulti, "strings",
                  <<strVegan>>, FALSE),
      RawQuestion(NullV, StrV(strStress), strScale, "none", <<>>, TRUE)>>
RawPriorities ==
    <<RawQuestion(StrV(strQ3), StrV(PRIORITIES_TITLE), strMulti, "objects",
                  <<Option(strP1, strEnergy), Option(strP2, strSleep)>>, FALSE)>>
\* two questions of one title
RawShared ==
    <<RawQuestion(StrV(strX), StrV(strT), <<>>, "objects",
                  <<Option(strA, strEnergy), Option(strB, strSleep)>>, FALSE),
      RawQuestion(StrV(strY), StrV(strT), <<>>, "objects",
                  <<Option(strA, strEnergy), Option(strB, strSleep)>>, FALSE)>>
\* the id of the second question is the title of the first
RawChained ==
    <<RawQuestion(StrV(strX), StrV(strT), <<>>, "strings", <<strA, strB>>, FALSE),
      RawQuestion(StrV(strT), StrV(strU), <<>>, "strings", <<strA, strB>>, FALSE)>>
\* no id, no title; no type, no options, a minLabel
RawUntitled ==
    <<RawQuestion(NullV, NullV, <<>>, "strings", <<strEnergy>>, FALSE),
      RawQuestion(NullV, NullV, <<>>, "none", <<>>, TRUE)>>
FetchedQuestions ==
    {<<>>, RawDiet, RawPriorities, RawShared, RawChained, RawUntitled}

\* what the weights URL can deliver: null, {}, a table
FlowWeights ==
    WObj(<<TitleEntry(strStress, <<OptionEntry(strLow, <<"Epi">>),
                                   OptionEntry(strHigh, <<"Rnp">>)>>),
           TitleEntry(PRIORITIES_TITLE,
                      <<OptionEntry(strEnergy, <<"Rnp">>),
                        OptionEntry(strSleep, <<"Epi", "Eic">>)>>)>>)
FetchedWeights == {WNull, WObj(<<>>), FlowWeights}

\* the values of the range input: min 1, max 5, step 1
SliderInputs == 1..5

\* w || {}
orEmpty(w) == IF w.k = "null" THEN WObj(<<>>) ELSE w

mounted == ~cancelled

\* -- load questions effect (QuizClient.jsx)

\* await fetch(...) resolves with res.ok
QFetchOk ==
    /\ impl = "client" /\ qload = "fetching"
    /\ qload' = "parsing"
    /\ UNCHANGED <<questions, weights, answers, impl, pc, kiosk, idle, loading,
                   error, step, wload, cancelled, weightsError>>
    /\ UNCHANGED passVars

\* QFetchFail with  finally { setLoading(false) }  outside the cancelled test
QFetchFailFinallyUnguarded ==
    /\ impl = "client" /\ qload \in {"fetching", "parsing"}
    /\ qload' = "failed"
    /\ IF ~cancelled
       THEN /\ error' = TRUE
            /\ questions' = FALLBACK
            /\ step' = guardStep(step, Len(FALLBACK))
       ELSE UNCHANGED <<error, questions, step>>
    /\ loading' = FALSE
    /\ UNCHANGED <<weights, answers, impl, pc, kiosk, idle, wload, cancelled,
                   weightsError>>
    /\ UNCHANGED passVars

\* fetch rejects, res.ok is false, or res.json() rejects: catch, finally
QFetchFail ==
    /\ impl = "client" /\ qload \in {"fetching", "parsing"}
    /\ qload' = "failed"
    /\ IF ~cancelled
       THEN /\ error' = TRUE
            /\ questions' = FALLBACK
            /\ loading' = FALSE
            /\ step' = guardStep(step, Len(FALLBACK))
       ELSE UNCHANGED <<error, questions, loading, step>>
    /\ UNCHANGED <<weights, answers, impl, pc, kiosk, idle, wload, cancelled,
                   weightsError>>
    /\ UNCHANGED passVars

\* res.json() resolves: setQuestions(transformed.length ? transformed : FALLBACK)
QParsed ==
    /\ impl = "client" /\ qload = "parsing"
    /\ qload' = "loaded"
    /\ \E src \in FetchedQuestions :
          LET list == IF transformed(src) # <<>> THEN transformed(src) ELSE FALLBACK
          IN IF ~cancelled
             THEN /\ questions' = list
                  /\ loading' = FALSE
                  /\ step' = guardStep(step, Len(list))
             ELSE UNCHANGED <<questions, loading, step>>
    /\ UNCHANGED <<weights, answers, impl, pc, kiosk, idle, error, wload,
                   cancelled, weightsError>>
    /\ UNCHANGED passVars

\* -- load weightings effect (QuizClient.jsx)

WFetchOk ==
    /\ impl = "client" /\ wload \in {"primary", "fallback"}
    /\ wload' = IF wload = "primary" THEN "primaryJson" ELSE "fallbackJson"
    /\ UNCHANGED <<questions, weights, answers, impl, pc, kiosk, idle, loading,
                   error, step, qload, cancelled, weightsError>>
    /\ UNCHANGED passVars

\* tryLoad resolves: if (!cancelled) setWeights(w || {})
WParsed ==
    /\ impl = "client" /\ wload \in {"primaryJson", "fallbackJson"}
    /\ wload' = "loaded"
    /\ \E w \in FetchedWeights :
          IF ~cancelled THEN weights' = orEmpty(w) ELSE UNCHANGED weights
    /\ UNCHANGED <<questions, answers, impl, pc, kiosk, idle, loading, error,
                   step, qload, cancelled, weightsError>>
    /\ UNCHANGED passVars

\* the primary tryLoad rejects: the relative URL is tried
WPrimaryFail ==
    /\ impl = "client" /\ wload \in {"primary", "primaryJson"}
    /\ wload' = "fallback"
    /\ UNCHANGED <<questions, weights, answers, impl, pc, kiosk, idle, loading,
                   error, step, qload, cancelled, weightsError>>
    /\ UNCHANGED passVars

\* the fallback tryLoad rejects: setWeights({}), window.__WEIGHTS_ERROR__
WFallbackFail ==
    /\ impl = "client" /\ wload \in {"fallback", "fallbackJson"}
    /\ wload' = "failed"
    /\ IF ~cancelled
       THEN weights' = WObj(<<>>) /\ weightsError' = TRUE
       ELSE UNCHANGED <<weights, weightsError>>
    /\ UNCHANGED <<questions, answers, impl, pc, kiosk, idle, loading, error,
                   step, qload, cancelled>>
    /\ UNCHANGED passVars

\* -- fetch weights effect (QuizResults.jsx)

\* fetch resolves with res.ok: res.json() is awaited
R_FetchOk ==
    /\ impl = "results" /\ wload = "fetching"
    /\ wload' = "json"
    /\ UNCHANGED <<questions, weights, answers, impl, pc, kiosk, idle, loading,
                   error, step, qload, cancelled, weightsError>>
    /\ UNCHANGED passVars

\* res.json() resolves: if (!cancelled) setWeights(w || {})
R_Parsed ==
    /\ impl = "results" /\ wload = "json"
    /\ wload' = "loaded"
    /\ \E w \in FetchedWeights :
          IF ~cancelled THEN weights' = orEmpty(w) ELSE UNCHANGED weights
    /\ UNCHANGED <<questions, answers, impl, pc, kiosk, idle, loading, error,
                   step, qload, cancelled, weightsError>>
    /\ UNCHANGED passVars

\* res.ok is false (w = {}), or fetch or res.json() rejects (catch):
\* if (!cancelled) setWeights({})
R_FetchFail ==
    /\ impl = "results" /\ wload \in {"fetching", "json"}
    /\ wload' = "failed"
    /\ IF ~cancelled THEN weights' = WObj(<<>>) ELSE UNCHANGED weights
    /\ UNCHANGED <<questions, answers, impl, pc, kiosk, idle, loading, error,
                   step, qload, cancelled, weightsError>>
    /\ UNCHANGED passVars

\* -- the cleanups of the effects: cancelled = true
Teardown ==
    /\ ~cancelled
    /\ cancelled' = TRUE
    /\ UNCHANGED <<questions, weights, answers, impl, pc, kiosk, idle, loading,
                   error, step, qload, wload, weightsError>>
    /\ UNCHANGED passVars

\* -- events (QuizClient.jsx)

\* AttractScreen onStart: setIdle(false); setAnswers({}); setStep(1)
Start ==
    /\ impl = "client" /\ mounted /\ AttractView
    /\ idle' = FALSE
    /\ answers' = AObj(EmptyObj)
    /\ step' = guardStep(1, total)
    /\ UNCHANGED <<questions, weights, impl, pc, kiosk, loading, error, qload,
                   wload, cancelled, weightsError>>
    /\ UNCHANGED passVars

\* landing, Get Started: setStep(1)
GetStarted ==
    /\ impl = "client" /\ mounted /\ LandingShown
    /\ step' = guardStep(1, total)
    /\ UNCHANGED <<questions, weights, answers, impl, pc, kiosk, idle, loading,
                   error, qload, wload, cancelled, weightsError>>
    /\ UNCHANGED passVars

\* the mode the render calls setAnswer with, and the values it offers
renderMode(q) ==
    IF q.type = "slider" THEN "slider" ELSE IF q.type = "multi" THEN "multi" ELSE "single"
renderValues(q) ==
    IF q.type = "slider" THEN {NumV(n) : n \in SliderInputs}
    ELSE {StrV(q.answers[i].id) : i \in 1..Len(q.answers)}

\* onChange / onClick of the question shown: setAnswer(current.id, value, mode)
SetAnswer ==
    /\ impl = "client" /\ mounted /\ QuestionShown
    /\ \E value \in renderValues(current) :
          answers' = AObj(setAnswer(answers.m, current.id, current.title, value,
                                    renderMode(current)))
    /\ UNCHANGED <<questions, weights, impl, pc, kiosk, idle, loading, error,
                   step, qload, wload, cancelled, weightsError>>
    /\ UNCHANGED passVars

\* Continue / See results (disabled unless canContinue())
GoNext ==
    /\ impl = "client" /\ mounted /\ QuestionShown /\ canContinue
    /\ step' = guardStep(nextStepOf(step), total)
    /\ UNCHANGED <<questions, weights, answers, impl, pc, kiosk, idle, loading,
                   error, qload, wload, cancelled, weightsError>>
    /\ UNCHANGED passVars

\* Back
GoBack ==
    /\ impl = "client" /\ mounted /\ QuestionShown
    /\ step' = guardStep(prevStepOf(step), total)
    /\ UNCHANGED <<questions, weights, answers, impl, pc, kiosk, idle, loading,
                   error, qload, wload, cancelled, weightsError>>
    /\ UNCHANGED passVars

\* Restart, a button of the scored results:
\* setAnswers({}); setStep(0); setIdle(false)
Restart ==
    /\ impl = "client" /\ mounted /\ ResultsView /\ ScoringShown
    /\ answers' = AObj(EmptyObj)
    /\ step' = guardStep(0, total)
    /\ idle' = FALSE
    /\ UNCHANGED <<questions, weights, impl, pc, kiosk, loading, error, qload,
                   wload, cancelled, weightsError>>
    /\ UNCHANGED passVars

\* the idle timer fires: setIdle(true); resetAll()
IdleTimeout ==
    /\ impl = "client" /\ mounted /\ ~idle
    /\ idle' = TRUE
    /\ answers' = AObj(EmptyObj)
    /\ step' = guardStep(0, total)
    /\ UNCHANGED <<questions, weights, impl, pc, kiosk, loading, error, qload,
                   wload, cancelled, weightsError>>
    /\ UNCHANGED passVars

\* a pointerdown, keydown or touchstart while idle: bumpIdle()
BumpIdle ==
    /\ impl = "client" /\ mounted /\ idle
    /\ idle' = FALSE
    /\ UNCHANGED <<questions, weights, answers, impl, pc, kiosk, loading, error,
                   step, qload, wload, cancelled, weightsError>>
    /\ UNCHANGED passVars

\* QuizClient after its first render and mount effects (bumpIdle() has set
\* idle to false), both loads in flight; QuizResults mounted on the answers
\* and questions it is handed, its load in flight
ResultsProps ==
    {[questions |-> transformed(RawPriorities),
      answers |-> AObj((strQ3 :> StrV(strP2)) @@ (PRIORITIES_TITLE :> StrV(strP2)))],
     [questions |-> transformed(RawPriorities),
      answers |-> AObj(PRIORITIES_TITLE :> ArrV(<<strSleep>>))]}

InitFlow ==
    /\ impl \in {"client", "results"}
    /\ IF impl = "client"
       THEN /\ questions = <<>>
            /\ answers = AObj(EmptyObj)
            /\ kiosk \in BOOLEAN
            /\ loading = TRUE
            /\ step = 0
            /\ qload = "fetching"
            /\ wload = "primary"
       ELSE /\ \E props \in ResultsProps :
                  questions = props.questions /\ answers = props.answers
            /\ kiosk = FALSE
            /\ loading = FALSE
            /\ step = Len(questions) + 1
            /\ qload = "loaded"
            /\ wload = "fetching"
    /\ weights = WObj(<<>>)
    /\ idle = FALSE
    /\ error = FALSE
    /\ cancelled = FALSE
    /\ weightsError = FALSE
    /\ answersByTitle = ANull
    /\ renormalised = ANull
    /\ tallies = TNull
    /\ winner = WNone("null")
    /\ prevRun = NoRun
    /\ given = Given(questions, weights, answers)
    /\ runs = 1
    /\ pc = "flow"

NextFlow ==
    \/ QFetchOk
    \/ QFetchFail
    \/ QParsed
    \/ WFetchOk
    \/ WParsed
    \/ WPrimaryFail
    \/ WFallbackFail
    \/ R_FetchOk
    \/ R_Parsed
    \/ R_FetchFail
    \/ Teardown
    \/ Start
    \/ GetStarted
    \/ SetAnswer
    \/ GoNext
    \/ GoBack
    \/ Restart
    \/ IdleTimeout
    \/ BumpIdle

SpecFlow == InitFlow /\ [][NextFlow]_vars

\* what the results show: the pass of the component on its state
FlowTallies ==
    IF impl = "client" THEN scoreAnswers(answers, weights, questions)
    ELSE QR_scoreAnswers(normaliseAnswersByTitle(answers, questions).out, weights)
FlowWinner ==
    IF impl = "client" THEN pickWinner(FlowTallies, answers, weights)
    ELSE QR_pickWinner(FlowTallies, normaliseAnswersByTitle(answers, questions).out,
                       weights)

---------------------------------------------------------------------------
(* setAnswer on its own: any mode on any question, with resets between *)

\* two questions with ids and titles all different, options as strings
RawPlain ==
    <<RawQuestion(StrV(strX), StrV(strT), <<>>, "strings", <<strA, strB>>, FALSE),
      RawQuestion(StrV(strY), StrV(strU), <<>>, "strings", <<strA, strB>>, FALSE)>>
AnswerQuestionLists ==
    {transformed(RawPlain), transformed(RawDiet), transformed(RawShared),
     transformed(RawChained)}
AnswerModes == {"single", "multi", "multi-limit-2", "slider"}
\* the value a call hands over: a number from the range input in slider
\* mode, an option id of the question otherwise
AnswerValues(q, mode) ==
    IF mode = "slider" THEN {NumV(1), NumV(5)}
    ELSE {StrV(q.answers[i].id) : i \in 1..Len(q.answers)}

InitAnswer ==
    /\ questions \in AnswerQuestionLists
    /\ weights = WObj(<<>>)
    /\ answers = AObj(EmptyObj)
    /\ impl = "client"
    /\ answersByTitle = ANull
    /\ renormalised = ANull
    /\ tallies = TNull
    /\ winner = WNone("null")
    /\ prevRun = NoRun
    /\ given = Given(questions, weights, answers)
    /\ runs = 1
    /\ pc = "answer"
    /\ kiosk = FALSE
    /\ idle = FALSE
    /\ loading = FALSE
    /\ error = FALSE
    /\ step = 0
    /\ qload = "loaded"
    /\ wload = "loaded"
    /\ cancelled = FALSE
    /\ weightsError = FALSE

\* setAnswer(current.id, value, mode) on the question shown
CallSetAnswer ==
    /\ pc = "answer" /\ hasCurrent
    /\ \E mode \in AnswerModes : \E value \in AnswerValues(current, mode) :
          answers' = AObj(setAnswer(answers.m, current.id, current.title, value,
                                    mode))
    /\ UNCHANGED <<questions, weights, impl, pc, step>>
    /\ UNCHANGED <<kiosk, idle, loading, error, qload, wload, cancelled,
                   weightsError>>
    /\ UNCHANGED passVars

\* another question becomes the current one
ShowQuestion ==
    /\ pc = "answer"
    /\ \E s \in 1..total : s # step /\ step' = s
    /\ UNCHANGED <<questions, weights, answers, impl, pc>>
    /\ UNCHANGED <<kiosk, idle, loading, error, qload, wload, cancelled,
                   weightsError>>
    /\ UNCHANGED passVars

\* resetAll(): setAnswers({}); setStep(0)
ResetAll ==
    /\ pc = "answer" /\ step # 0
    /\ answers' = AObj(EmptyObj)
    /\ step' = 0
    /\ UNCHANGED <<questions, weights, impl, pc>>
    /\ UNCHANGED <<kiosk, idle, loading, error, qload, wload, cancelled,
                   weightsError>>
    /\ UNCHANGED passVars

NextAnswer ==
    \/ CallSetAnswer
    \/ ShowQuestion
    \/ ResetAll

SpecAnswer == InitAnswer /\ [][NextAnswer]_vars

---------------------------------------------------------------------------
(* scoreAnswers of QuizClient.jsx on string answers: ids, labels, near-labels *)

strSeven == <<"7">>
strTwo == <<"2">>
\* option ids: a plain one, one that normalises to the label Sleep, one that
\* is the label Calm, one of digits
QResolve ==
    Question(strQ1, strGoal, "single",
             <<Option(strA, strEnergy), Option(strSleepLoud, strEnergy),
               Option(strCalm, strSleep), Option(strSeven, strCalm)>>)
\* a second question of the same title, its options labelled otherwise
QResolveTwin ==
    Question(strQ2, strGoal, "single", <<Option(strA, strSleep)>>)
ResolveQuestionLists == {<<QResolve>>, <<QResolve, QResolveTwin>>}
\* option maps in the order Object.keys lists them (a key of digits first)
ResolveWeights ==
    {TitleEntry(strGoal, <<OptionEntry(strEnergy, <<"Eic">>),
                           OptionEntry(strSleep, <<"Rnp">>),
                           OptionEntry(strCalm, <<"Epi">>)>>),
     TitleEntry(strGoal, <<OptionEntry(strEnergy, <<"Eic">>),
                           OptionEntry(strSleep, <<"Rnp">>),
                           OptionEntry(strSleepLoud, <<"Epi">>)>>),
     TitleEntry(strGoal, <<NonListEntry(strEnergy, "falsy"),
                           OptionEntry(strSleep, <<"Rnp">>)>>),
     TitleEntry(strGoal, <<OptionEntry(strSeven, <<"Epi">>),
                           OptionEntry(strEnergy, <<"Eic">>),
                           OptionEntry(strSleep, <<"Rnp">>)>>)}
ResolveStrings ==
    {strA, strEnergy, strSleep, strSleepLoud, strCalm, strSeven, strTwo, strOther}
ResolveValues ==
    {StrV(s) : s \in ResolveStrings}
    \cup {ArrV(sel) : sel \in SeqsUpTo({strA, strSleepLoud, strCalm, strSeven,
                                        strOther}, MaxSelected)}

InitResolve ==
    /\ questions \in ResolveQuestionLists
    /\ \E w \in ResolveWeights : weights = WObj(<<w>>)
    /\ \E v \in ResolveValues : answers \in {AObj(strGoal :> v), AObj(strQ1 :> v)}
    /\ impl = "client"
    /\ answersByTitle = ANull
    /\ renormalised = ANull
    /\ tallies = TNull
    /\ winner = WNone("null")
    /\ prevRun = NoRun
    /\ given = Given(questions, weights, answers)
    /\ runs = 1
    /\ pc = "start"
    /\ LoadsSettled

NextResolve ==
    \/ ClientScore
    \/ ClientPick

SpecResolve == InitResolve /\ [][NextResolve]_vars

---------------------------------------------------------------------------
(* pickWinner on its own: tallies, answers and weights handed over directly *)

\* "Zzz" is a code the weight table can hold and PRODUCT_ORDER does not
TallyCodes == {"Eic", "Epi", "Rnp", "Zzz"}
PickTallies ==
    {TNull} \cup {TObj(m) : m \in UNION {[S -> 1..MaxTally] : S \in SUBSET TallyCodes}}
PriorityLabels == {strEnergy, strSleep, strCalm}
PickAnswers ==
    {ANull, AObj(EmptyObj), AObj(PRIORITIES_TITLE :> StrV(strEnergy))}
    \cup {AObj(PRIORITIES_TITLE :> ArrV(sel)) :
             sel \in SeqsUpTo(PriorityLabels, MaxSelected)}
PickWeights ==
    {WNull, WObj(<<>>)} \cup {WObj(<<p>>) : p \in PrioritiesWeights}

InitPick ==
    /\ questions = <<>>
    /\ weights \in PickWeights
    /\ answers \in PickAnswers
    /\ answersByTitle = answers
    /\ tallies \in PickTallies
    /\ impl \in {"client", "results"}
    /\ renormalised = ANull
    /\ winner = WNone("null")
    /\ prevRun = NoRun
    /\ given = Given(questions, weights, answers)
    /\ runs = 1
    /\ pc = "scored"
    /\ LoadsSettled

NextPick ==
    \/ ClientPick
    \/ ResultsPick

SpecPick == InitPick /\ [][NextPick]_vars

---------------------------------------------------------------------------
(* normaliseAnswersByTitle on its own *)

NormKeys == {<<"A">>, <<"B">>, <<"C">>}
\* questions of every id and title, and one without id, one without title
NormQuestions ==
    {Question(id, title, "single", <<>>) : id \in NormKeys, title \in NormKeys}
    \cup {Question(<<>>, <<"B">>, "single", <<>>),
          Question(<<"A">>, <<>>, "single", <<>>)}
NormValues == {StrV(strA), ArrV(<<strB>>)}
NormAnswers ==
    {ANull} \cup {AObj(m) : m \in UNION {[S -> NormValues] : S \in SUBSET NormKeys}}

InitNorm ==
    /\ questions \in SeqsUpTo(NormQuestions, MaxQuestions)
    /\ weights = WObj(<<>>)
    /\ answers \in NormAnswers
    /\ impl = "results"
    /\ answersByTitle = ANull
    /\ renormalised = ANull
    /\ tallies = TNull
    /\ winner = WNone("null")
    /\ prevRun = NoRun
    /\ given = Given(questions, weights, answers)
    /\ runs = 1
    /\ pc = "start"
    /\ LoadsSettled

NextNorm ==
    \/ ResultsNormalise
    \/ Renormalise

SpecNorm == InitNorm /\ [][NextNorm]_vars

---------------------------------------------------------------------------
(* Properties of pickWinner (SpecPick) *)

ProductCodes == Range(PRODUCT_ORDER)

\* the codes of PRODUCT_ORDER of the highest tally, a code without tally
\* counting 0
Leaders(m) ==
    {c \in ProductCodes : \A d \in ProductCodes : TallyGet(m, c) >= TallyGet(m, d)}

\* the code of S that comes first in PRODUCT_ORDER
FirstInOrder(S) ==
    PRODUCT_ORDER[CHOOSE i \in 1..Len(PRODUCT_ORDER) :
                      /\ PRODUCT_ORDER[i] \in S
                      /\ \A j \in 1..(i - 1) : PRODUCT_ORDER[j] \notin S]

\* the answers object pickWinner was handed
PickedAnswers == IF impl = "client" THEN answers ELSE answersByTitle

\* the priorities answer when it is a sequence of selections, else none
PrioritySelections ==
    LET v == IF PickedAnswers.k = "obj"
             THEN Get(PickedAnswers.m, PRIORITIES_TITLE) ELSE NullV
    IN IF v.k = "arr" THEN v.a ELSE <<>>

\* the code list the weight table maps a priority label to, <<>> when none
MappedCodes(label) ==
    LET maps == {e \in Range(weights.m) : e.title = PRIORITIES_TITLE /\ e.k = "map"}
        lists == {o \in UNION {Range(e.map) : e \in maps} :
                     o.label = label /\ o.k = "list"}
    IN IF weights.k = "obj" /\ lists # {} THEN (CHOOSE o \in lists : TRUE).codes
       ELSE <<>>

\* selection i maps, by its first code, to a leader
SelectionHits(i) ==
    LET codes == MappedCodes(PrioritySelections[i])
    IN codes # <<>> /\ codes[1] \in Leaders(tallies.m)

SingleMaxWins ==
    (pc = "done" /\ tallies.k = "obj") =>
        \A a \in ProductCodes :
            (\A b \in ProductCodes \ {a} :
                 TallyGet(tallies.m, a) > TallyGet(tallies.m, b))
            => winner = WCode(a)

SingleMaxWinsWitness ==
    /\ pc = "done" /\ impl = "results"
    /\ tallies = TObj(("Eic" :> 1) @@ ("Rnp" :> 2) @@ ("Zzz" :> 2))
    /\ PrioritySelections = <<strSleep>>
    /\ MappedCodes(strSleep) = <<"Epi", "Eic">>
    /\ winner = WCode("Rnp")

\* C3: with two or more leaders and a non-empty sequence of priority
\* selections, the winner is the first mapped code of the earliest selection
\* whose first mapped code is a leader, even when another leader comes
\* earlier in PRODUCT_ORDER
PriorityBreaksTie ==
    (pc = "done" /\ tallies.k = "obj" /\ Cardinality(Leaders(tallies.m)) >= 2) =>
        \A i \in 1..Len(PrioritySelections) :
            (SelectionHits(i) /\ \A j \in 1..(i - 1) : ~SelectionHits(j))
            => winner = WCode(MappedCodes(PrioritySelections[i])[1])

PriorityBreaksTieWitness ==
    /\ pc = "done" /\ impl = "client"
    /\ tallies = TObj(("Eic" :> 1) @@ ("Epi" :> 1) @@ ("Rnp" :> 1))
    /\ PrioritySelections = <<strCalm, strEnergy>>
    /\ ~SelectionHits(1) /\ SelectionHits(2)
    /\ MappedCodes(strEnergy) = <<"Rnp">>
    /\ winner = WCode("Rnp")

\* C4: with two or more leaders and no priority selection mapping to a
\* leader (or no priorities answer), the winner is the leader that comes
\* first in PRODUCT_ORDER; for empty answers and tallies = {} it is
\* PRODUCT_ORDER[0]
StableOrderFallback ==
    (pc = "done" /\ tallies.k = "obj") =>
        /\ (/\ Cardinality(Leaders(tallies.m)) >= 2
            /\ \A i \in 1..Len(PrioritySelections) : ~SelectionHits(i))
           => winner = WCode(FirstInOrder(Leaders(tallies.m)))
        /\ (tallies.m = EmptyTallies /\ PickedAnswers = AObj(EmptyObj))
           => winner = WCode(PRODUCT_ORDER[1])

StableOrderFallbackWitness ==
    /\ pc = "done" /\ impl = "results"
    /\ tallies = TObj(("Epi" :> 2) @@ ("Rnp" :> 2) @@ ("Eic" :> 1))
    /\ PrioritySelections = <<strEnergy, strCalm>>
    /\ MappedCodes(strEnergy) = <<"Zzz">>
    /\ winner = WCode("Epi")

---------------------------------------------------------------------------
(* Properties of the scoring pass (Spec) *)

\* how often each code is listed in a code list
CountsOf(codes) ==
    [c \in Range(codes) \ {""} |-> Cardinality({i \in 1..Len(codes) : codes[i] = c})]

\* the code list an option map gives a label
CodesOf(optionMap, label) ==
    (CHOOSE o \in Range(optionMap) : o.label = label).codes

\* the label of the Goal question's option a selection names, by id or by label
ChoiceLabel(x) ==
    IF \E o \in Range(QGoal.answers) : o.id = x
    THEN (CHOOSE o \in Range(QGoal.answers) : o.id = x).label
    ELSE x

ScenarioWeights ==
    WObj(<<TitleEntry(strGoal, <<OptionEntry(strEnergy, <<"Eic">>),
                                 OptionEntry(strSleep, <<"Rnp">>)>>)>>)

\* C5: a single-choice answer recorded as the option's raw id under the
\* question-id key counts once for each code the weight table lists for that
\* option's label and for no other code; the scenario answers = {q1: "a"}
\* gives tallies = {Eic: 1} and the winner "Eic"
RawIdScoresItsLabel ==
    /\ \A o \in Range(QGoal.answers), g \in GoalWeights :
          (/\ pc \in {"scored", "done"}
           /\ g.title = QGoal.title
           /\ weights = WObj(<<g>>)
           /\ given.answers = AObj(QGoal.id :> StrV(o.id)))
          => tallies = TObj(CountsOf(CodesOf(g.map, o.label)))
    /\ (/\ pc = "done"
        /\ questions = <<QGoal>>
        /\ weights = ScenarioWeights
        /\ given.answers = AObj(strQ1 :> StrV(strA)))
       => (tallies = TObj("Eic" :> 1) /\ winner = WCode("Eic"))

\* the value of a slider answer of the model, a number or a digit
ScaleValue(v) ==
    IF v.k = "num" THEN v.n ELSE CHOOSE n \in 1..5 : v.s = <<DigitChars[n + 1]>>

\* C6: an answer that is a number or a numeric string on the 1-5 scale is
\* bucketed by the key order of the question's option map: 1 and 2 count for
\* each code of the first key, 4 and 5 for each code of the last key, 3 for
\* nothing (QuizClient.jsx)
SliderBuckets ==
    \A s \in StressWeights, v \in StressValues :
        (/\ pc \in {"scored", "done"} /\ impl = "client"
         /\ weights = WObj(<<s>>)
         /\ given.answers \in {AObj(a) : a \in Recorded(QStress, v)})
        => tallies = TObj(CountsOf(
               IF ScaleValue(v) \in {1, 2} THEN s.map[1].codes
               ELSE IF ScaleValue(v) \in {4, 5} THEN s.map[Len(s.map)].codes
               ELSE <<>>))

SliderBucketsWitness ==
    /\ pc = "done" /\ impl = "client"
    /\ questions = <<QGoal, QStress>>
    /\ given.answers = AObj(strQ2 :> StrV(<<"5">>))
    /\ \E s \in StressWeights : weights = WObj(<<s>>) /\ Len(s.map) = 3
    /\ tallies = TObj(("Rnp" :> 1) @@ ("Mjb" :> 1))
    /\ winner = WCode("Rnp")

\* the code lists of the selected options, one after the other
RECURSIVE SelectedCodes(_, _)
SelectedCodes(optionMap, sel) ==
    IF sel = <<>> THEN <<>>
    ELSE CodesOf(optionMap, ChoiceLabel(Head(sel)))
         \o SelectedCodes(optionMap, Tail(sel))

---------------------------------------------------------------------------
(* Properties of normaliseAnswersByTitle (SpecNorm) *)

\* the entries of the answers object handed over (none for null)
GivenEntries == given.answers.m

\* question i has only its id-key populated in the answers handed over
OnlyIdPopulated(i) ==
    /\ questions[i].id # <<>> /\ questions[i].title # <<>>
    /\ Get(GivenEntries, questions[i].id).k # "null"
    /\ Get(GivenEntries, questions[i].title).k = "null"

BothPopulated(i) ==
    /\ questions[i].id # <<>> /\ questions[i].title # <<>>
    /\ Get(GivenEntries, questions[i].id).k # "null"
    /\ Get(GivenEntries, questions[i].title).k # "null"

\* every key of the input is in the result with its value, and the input
\* object is as it was
InputKept ==
    /\ answers = given.answers
    /\ \A key \in DOMAIN GivenEntries : Get(answersByTitle.m, key) = GivenEntries[key]

\* C8 as stated: no key of the input changes or goes, the input is not
\* mutated, and for every question with only its id-key populated the
\* result holds that value under the title-key as well
MirrorKeepsInput ==
    pc = "normalised" =>
        /\ InputKept
        /\ \A i \in 1..Len(questions) :
              /\ OnlyIdPopulated(i) =>
                    /\ Get(answersByTitle.m, questions[i].title)
                           = Get(GivenEntries, questions[i].id)
                    /\ Get(answersByTitle.m, questions[i].id)
                           = Get(GivenEntries, questions[i].id)
              /\ BothPopulated(i) =>
                    /\ Get(answersByTitle.m, questions[i].title)
                           = Get(GivenEntries, questions[i].title)
                    /\ Get(answersByTitle.m, questions[i].id)
                           = Get(GivenEntries, questions[i].id)

\* C8, amended: as stated, the title-key of a question with only its id-key
\* populated holding that question's value provided no earlier question of
\* the list has the same title (the first one to mirror supplies the value)
MirrorKeepsInputFirstTitle ==
    pc = "normalised" =>
        /\ InputKept
        /\ \A i \in 1..Len(questions) :
              /\ (/\ OnlyIdPopulated(i)
                  /\ \A j \in 1..(i - 1) : questions[j].title # questions[i].title)
                 => /\ Get(answersByTitle.m, questions[i].title)
                           = Get(GivenEntries, questions[i].id)
                    /\ Get(answersByTitle.m, questions[i].id)
                           = Get(GivenEntries, questions[i].id)
              /\ BothPopulated(i) =>
                    /\ Get(answersByTitle.m, questions[i].title)
                           = Get(GivenEntries, questions[i].title)
                    /\ Get(answersByTitle.m, questions[i].id)
                           = Get(GivenEntries, questions[i].id)

MirrorKeepsInputWitness ==
    /\ pc = "normalised"
    /\ Len(questions) = 2
    /\ OnlyIdPopulated(1) /\ BothPopulated(2)
    /\ questions[1].title # questions[2].title
    /\ Get(GivenEntries, questions[2].id) # Get(GivenEntries, questions[2].title)
    /\ Get(answersByTitle.m, questions[1].title) = Get(GivenEntries, questions[1].id)
    /\ answersByTitle # given.answers

\* C9 as stated: normalising the normalised answers changes nothing, for
\* every question list
MirrorIdempotent ==
    pc = "renormalised" => renormalised = answersByTitle

\* no question's title is the id of a question earlier in the list
NoTitleOfEarlierId ==
    \A i \in 1..Len(questions), j \in 1..Len(questions) :
        (i < j /\ questions[j].title # <<>>) => questions[j].title # questions[i].id

\* C9, amended: normalising the normalised answers changes nothing when no
\* question's title is the id of a question earlier in the list
MirrorIdempotentNoBackReference ==
    (pc = "renormalised" /\ NoTitleOfEarlierId) => renormalised = answersByTitle

MirrorIdempotentWitness ==
    /\ pc = "renormalised"
    /\ NoTitleOfEarlierId
    /\ Len(questions) = 2
    /\ questions[1].title = questions[2].id
    /\ questions[1].id # questions[1].title
    /\ answersByTitle # given.answers
    /\ renormalised = answersByTitle

---------------------------------------------------------------------------
(* Re-running the pass (Spec) *)

---------------------------------------------------------------------------
(* Questions that add nothing (Spec) *)

\* a weight-table title stands for a question title: equal after
\* normalisation, or one contained in the other
TitlesMatch(a, b) ==
    \/ norm(a) = norm(b)
    \/ Includes(norm(a), norm(b))
    \/ Includes(norm(b), norm(a))

\* the weight-table entries that stand for question q
EntriesFor(q) ==
    IF weights.k = "null" THEN {}
    ELSE {e \in Range(weights.m) : TitlesMatch(e.title, q.title)}

\* the answer recorded for q, under its title or else under its id
RecordedFor(q) ==
    IF answers.k = "null" THEN NullV
    ELSE IF Get(answers.m, q.title).k # "null" THEN Get(answers.m, q.title)
    ELSE Get(answers.m, q.id)

\* the string s names a label of optionMap: the label itself, the id of an
\* option of q with that label, or the label up to case, spaces and quotes
NamesLabel(q, optionMap, s) ==
    \E o \in Range(optionMap) :
        \/ s = o.label
        \/ norm(s) = norm(o.label)
        \/ \E a \in Range(q.answers) : a.id = s /\ norm(a.label) = norm(o.label)

\* the answer recorded for q resolves to no label of its option map
ResolvesToNothing(q) ==
    LET v == RecordedFor(q)
        maps == {e.map : e \in EntriesFor(q)}
    IN \/ v.k = "num" /\ v.n = 3
       \/ v.k = "str" /\ v.s = <<"3">>
       \/ v.k = "str" /\ ~IsDigits(v.s) /\ \A m \in maps : ~NamesLabel(q, m, v.s)
       \/ v.k = "arr" /\ \A i \in 1..Len(v.a) : \A m \in maps : ~NamesLabel(q, m, v.a[i])

AddsNothing(q) ==
    \/ EntriesFor(q) = {}
    \/ RecordedFor(q).k = "null"
    \/ ResolvesToNothing(q)

\* the pass of the implementation at hand on other inputs
PassTallies(qs, w, a) ==
    IF impl = "client" THEN scoreAnswers(a, w, qs)
    ELSE QR_scoreAnswers(normaliseAnswersByTitle(a, qs).out, w)

\* the inputs with question q, its weights and its answer taken away
QuestionsWithout(q) == SelectSeq(questions, LAMBDA x : x # q)
WeightsWithout(q) ==
    IF weights.k = "null" THEN weights
    ELSE WObj(SelectSeq(weights.m, LAMBDA e : e \notin EntriesFor(q)))
AnswersWithout(q) ==
    IF answers.k = "null" THEN answers
    ELSE AObj([key \in DOMAIN answers.m \ {q.id, q.title} |-> answers.m[key]])

\* C11: a question with no weight-table entry, with no recorded answer, or
\* whose answer resolves to no label of its option map adds nothing to any
\* tally: the tallies are those of the other questions alone
SilentQuestionsAddNothing ==
    (pc = "scored" /\ tallies.k = "obj") =>
        \A i \in 1..Len(questions) :
            AddsNothing(questions[i]) =>
                tallies = PassTallies(QuestionsWithout(questions[i]),
                                      WeightsWithout(questions[i]),
                                      AnswersWithout(questions[i]))

SilentQuestionsAddNothingWitness ==
    /\ pc = "scored" /\ impl = "client"
    /\ questions = <<QGoal, QStress>>
    /\ EntriesFor(QStress) = {}
    /\ RecordedFor(QStress) = NumV(1)
    /\ RecordedFor(QGoal) = StrV(strA)
    /\ ~AddsNothing(QGoal)
    /\ tallies = TObj("Eic" :> 1)

---------------------------------------------------------------------------
(* Missing and malformed data (Spec) *)

\* the weights with every entry that is no option map, and in an option map
\* every value that is no list of codes, taken away
WellFormedMap(optionMap) == SelectSeq(optionMap, LAMBDA o : o.k = "list")
WellFormedWeights ==
    IF weights.k = "null" THEN weights
    ELSE LET maps == SelectSeq(weights.m, LAMBDA e : e.k = "map")
         IN WObj([i \in 1..Len(maps) |->
                     TitleEntry(maps[i].title, WellFormedMap(maps[i].map))])

\* the questions that have a title
TitledQuestions == SelectSeq(questions, LAMBDA q : q.title # <<>>)

NoWeights == weights.k = "null" \/ weights.m = <<>>

\* C12: scoring raises no error on missing or malformed data: with no or an
\* empty weight table the tallies are empty and the winner is the first code
\* of PRODUCT_ORDER, and a question without title or a weight value that is
\* no list of codes is skipped, the tallies being those of the well-formed
\* entries
ScoringNeverFails ==
    pc \in {"scored", "done"} =>
        /\ tallies.k = "obj"
        /\ NoWeights => tallies.m = EmptyTallies
        /\ (NoWeights /\ pc = "done") => winner = WCode(PRODUCT_ORDER[1])
        /\ tallies = PassTallies(TitledQuestions, WellFormedWeights, answers)

---------------------------------------------------------------------------
(* Loads and teardown (SpecFlow) *)

\* the results are on screen: QuizClient at the results step, QuizResults
\* whenever it is mounted
ResultsOnScreen ==
    mounted /\ (impl = "client" => ResultsView)

\* the results on screen show a scored outcome, not "Loading scoring data..."
ScoredOutcomeShown ==
    impl = "client" => ScoringShown

\* C13: a weights load that has settled in failure counts as empty data and
\* does not block scoring: with the results on screen, a scored outcome is
\* shown, the default winner. (The view is a function of the state, and no
\* step changes the weights once the load has settled, so what is shown then
\* is shown for good.)
FailedWeightsStillScore ==
    (wload = "failed" /\ ResultsOnScreen) =>
        /\ ScoredOutcomeShown
        /\ FlowWinner = WCode(PRODUCT_ORDER[1])

\* the fallback question is in place after a failed questions load and is
\* the question shown
FallbackShown ==
    /\ impl = "client" /\ mounted
    /\ qload = "failed"
    /\ questions = FALLBACK
    /\ QuestionShown /\ step = 1

\* C14: after a failed questions load the quiz proceeds on the fallback
\* question: shown at step 1, it offers an answer to select (which makes
\* canContinue true and the results step reachable)
FallbackCanBeAnswered ==
    FallbackShown =>
        /\ renderValues(current) # {}
        /\ \A value \in renderValues(current) :
              truthy(answerOf(setAnswer(answers.m, current.id, current.title,
                                        value, renderMode(current)), current))

\* C15: once the cleanup of the effects has run, no step of a load (a fetch
\* settling, a parse, a failure) changes questions, error, loading, weights
\* or the weights-error global
CancelledLoadsWriteNothing ==
    [][cancelled => UNCHANGED <<questions, error, loading, weights, weightsError>>]_vars

\* both loads of QuizClient have settled after the teardown, one that had
\* delivered and one that had failed, and the state is as the teardown found it
CancelledLoadsWriteNothingWitness ==
    /\ impl = "client" /\ cancelled
    /\ qload = "failed" /\ wload = "failed"
    /\ questions = <<>> /\ loading /\ ~error
    /\ weights = WObj(<<>>) /\ ~weightsError

---------------------------------------------------------------------------
(* The two keys of an answer (SpecAnswer) *)

BothKeysStored(q) ==
    q.id \in DOMAIN answers.m /\ q.title \in DOMAIN answers.m

\* C16: after any sequence of setAnswer calls and resets, every question
\* whose id-key and title-key are both stored has the same value under both
IdAndTitleAgree ==
    \A i \in 1..Len(questions) :
        BothKeysStored(questions[i]) =>
            Get(answers.m, questions[i].id) = Get(answers.m, questions[i].title)

\* no id and no title of a question is the id or the title of another one
KeysApart(qs) ==
    \A i, j \in 1..Len(qs) :
        i # j => {qs[i].id, qs[i].title} \cap {qs[j].id, qs[j].title} = {}

\* C16 (amended): for questions whose ids and titles are not shared between
\* questions, after any sequence of setAnswer calls and resets every question
\* whose id-key and title-key are both stored has the same value under both
IdAndTitleAgreeKeysApart ==
    KeysApart(questions) => IdAndTitleAgree

\* two questions of keys apart are answered, one of them with two selections
IdAndTitleAgreeKeysApartWitness ==
    /\ KeysApart(questions)
    /\ \E i, j \in 1..Len(questions) :
          /\ i # j
          /\ BothKeysStored(questions[i]) /\ BothKeysStored(questions[j])
          /\ Get(answers.m, questions[i].id).k = "arr"
          /\ Len(Get(answers.m, questions[i].id).a) = 2
          /\ Get(answers.m, questions[j].id).k # "null"

---------------------------------------------------------------------------
(* Resolution of string answers (SpecResolve) *)

\* the label of the option of q whose id is v ; <<>> when q has none
OwnOptionLabel(q, v) ==
    LET hits == {i \in 1..Len(q.answers) : q.answers[i].id = v}
    IN IF hits = {} THEN <<>>
       ELSE q.answers[CHOOSE i \in hits : \A j \in hits : j <= i].label
\* the keys of optionMap that equal v after normalisation
NearKeys(optionMap, v) ==
    {l \in {optionMap[i].label : i \in 1..Len(optionMap)} : norm(l) = norm(v)}

\* the stated precedence: an exact key; else the label of the question's
\* option of that id, when it is a key; else the key equal after
\* normalisation; else the value itself
PrecedenceLabel(optionMap, q, v) ==
    IF HasLabel(optionMap, v) THEN v
    ELSE IF OwnOptionLabel(q, v) # <<>> /\ HasLabel(optionMap, OwnOptionLabel(q, v))
         THEN OwnOptionLabel(q, v)
    ELSE IF NearKeys(optionMap, v) # {} THEN CHOOSE l \in NearKeys(optionMap, v) : TRUE
    ELSE v

\* a string resolved on its own, each element of a sequence resolved on its
\* own; what is no key (or a key of no value) contributes nothing
PrecedenceLabels(optionMap, q, chosen) ==
    LET Present(lab) == OptionTruthy(optionMap, lab)
    IN IF chosen.k = "arr"
       THEN SelectSeq([i \in 1..Len(chosen.a) |->
                          PrecedenceLabel(optionMap, q, chosen.a[i])], Present)
       ELSE SelectSeq(<<PrecedenceLabel(optionMap, q, chosen.s)>>, Present)

\* the pass with every string answer resolved by the stated precedence
RECURSIVE PrecedencePass(_, _, _, _)
PrecedencePass(m, qs, ans, wn) ==
    IF qs = <<>> THEN m
    ELSE LET q == Head(qs)
             found == findWeightsForTitle(wn, q.title)
             byTitle == Get(ans, q.title)
             chosen == IF byTitle.k = "null" THEN Get(ans, q.id) ELSE byTitle
             scored == q.title # <<>> /\ found.found /\ found.obj.k = "map"
                       /\ chosen.k \in {"str", "arr"}
         IN PrecedencePass(
                IF scored
                THEN addLabels(m, PrecedenceLabels(found.obj.map, q, chosen),
                               found.obj.map)
                ELSE m,
                Tail(qs), ans, wn)

\* C17: the codes added by QuizClient's scoreAnswers for string answers are
\* those of the labels the fixed precedence gives: exact key, else label of
\* the question's option of that id, else key equal after normalisation, else
\* the value unchanged, contributing nothing; elements of a sequence each
\* resolved by the same rule
StringsResolvedByPrecedence ==
    (pc = "scored" /\ impl = "client") =>
        tallies = TObj(PrecedencePass(NewTallies, questions, answers.m,
                                      weightsNormOf(weights.m)))

\* no two questions of one title
TitlesApart(qs) ==
    \A i, j \in 1..Len(qs) : i # j => qs[i].title # qs[j].title
\* keys not empty and different after normalisation, values truthy
PlainOptionMap(optionMap) ==
    /\ \A i \in 1..Len(optionMap) :
          optionMap[i].label # <<>> /\ optionMap[i].k \in {"list", "truthy"}
    /\ \A i, j \in 1..Len(optionMap) :
          i # j => norm(optionMap[i].label) # norm(optionMap[j].label)
\* no answer is a string of digits on its own (those are slider values)
NoBareDigits(ans) ==
    \A key \in DOMAIN ans : ~(ans[key].k = "str" /\ IsDigits(ans[key].s))
PrecedenceCovers ==
    /\ TitlesApart(questions)
    /\ \A i \in 1..Len(weights.m) :
          weights.m[i].k = "map" => PlainOptionMap(weights.m[i].map)
    /\ NoBareDigits(answers.m)

\* C17 (amended): for questions of different titles, option maps whose keys
\* are non-empty and differ after normalisation and whose values are truthy,
\* and answers that are no bare string of digits, the codes added are those
\* of the labels the fixed precedence gives
StringsResolvedByPrecedenceCovered ==
    PrecedenceCovers => StringsResolvedByPrecedence

\* a sequence of an id that normalises to the key Sleep and is the id of the
\* option labelled Energy, and of an id of digits labelled Calm: scored as
\* Energy and Calm
StringsResolvedByPrecedenceCoveredWitness ==
    /\ PrecedenceCovers
    /\ pc = "scored" /\ impl = "client"
    /\ Get(answers.m, strGoal) = ArrV(<<strSleepLoud, strSeven>>)
    /\ tallies = TObj(("Eic" :> 1) @@ ("Epi" :> 1))

---------------------------------------------------------------------------
(* The tie-break on the answers the flow records (SpecFlow) *)

\* the priorities question of the loaded list (the caller has tested that
\* there is one)
HasPrioritiesQuestion ==
    \E i \in 1..Len(questions) : questions[i].title = PRIORITIES_TITLE
PrioritiesQuestion ==
    questions[CHOOSE i \in 1..Len(questions) : questions[i].title = PRIORITIES_TITLE]

\* what the flow has recorded for it: one option id, or a list of them
RecordedSelections ==
    LET v == Get(answers.m, PRIORITIES_TITLE)
    IN IF v.k = "arr" THEN v.a ELSE IF v.k = "str" THEN <<v.s>> ELSE <<>>

\* the selections as option labels
SelectedLabels ==
    [i \in 1..Len(RecordedSelections) |->
        OwnOptionLabel(PrioritiesQuestion, RecordedSelections[i])]

FlowLeaders ==
    leadersFrom(-1, <<>>, PRODUCT_ORDER, FlowTallies.m)

\* the selections, in order, whose first mapped code is a leader
DecidingSelections ==
    LET priMap == TitleAt(weights.m, PRIORITIES_TITLE).map
    IN SelectSeq(SelectedLabels,
                 LAMBDA lab : /\ firstCode(priMap, lab) # ""
                              /\ firstCode(priMap, lab) \in Range(FlowLeaders))

\* the results of QuizClient show a scored outcome with two or more codes
\* tied at the top, the priorities question answered in the flow
TieAtResults ==
    /\ impl = "client" /\ ResultsOnScreen /\ ScoringShown
    /\ HasPrioritiesQuestion
    /\ HasTitle(weights.m, PRIORITIES_TITLE)
    /\ TitleAt(weights.m, PRIORITIES_TITLE).k = "map"
    /\ PrioritiesQuestion.id \in DOMAIN answers.m
    /\ PRIORITIES_TITLE \in DOMAIN answers.m
    /\ Len(FlowLeaders) >= 2

\* C18: with the priorities selections recorded by the flow as option ids
\* and a tie at the top, the selections are resolved to their labels before
\* the weight-table lookup: the first selected priority whose first mapped
\* code is a leader decides the winner
SelectedPriorityDecides ==
    (TieAtResults /\ DecidingSelections # <<>>) =>
        FlowWinner = WCode(firstCode(TitleAt(weights.m, PRIORITIES_TITLE).map,
                                     DecidingSelections[1]))

---------------------------------------------------------------------------
(* The two implementations side by side (Spec) *)

\* what QuizClient computes on the inputs of the pass
ClientTallies == scoreAnswers(given.answers, given.weights, given.questions)
ClientWinner == pickWinner(ClientTallies, given.answers, given.weights)
\* what QuizResults computes on them
ResultsByTitle == normaliseAnswersByTitle(given.answers, given.questions).out
ResultsTallies == QR_scoreAnswers(ResultsByTitle, given.weights)
ResultsWinner == QR_pickWinner(ResultsTallies, ResultsByTitle, given.weights)

\* C19: on the same (questions, weights, answers) the tallies and the winner
\* of the pass of one implementation are those the other implementation
\* returns
ImplementationsAgree ==
    /\ (pc \in {"scored", "done"} /\ impl = "client") => tallies = ResultsTallies
    /\ (pc \in {"scored", "done"} /\ impl = "results") => tallies = ClientTallies
    /\ (pc = "done" /\ impl = "client") => winner = ResultsWinner
    /\ (pc = "done" /\ impl = "results") => winner = ClientWinner

---------------------------------------------------------------------------
(* The diet skip (SpecFlow) *)

\* question i is the "specific diet" question, answered No, and question
\* i + 1 is the "which diet" question
SkipsAfter(i) ==
    /\ i \in 1..(total - 1)
    /\ isSpecificDiet(questions[i])
    /\ isNo(answerOf(answers.m, questions[i]))
    /\ isWhichDiet(questions[i + 1])

\* C20: while the answer to the "specific diet" question is No and the next
\* question is the "which diet" question, whatever goNext and goBack steps
\* are taken, the "which diet" question is not the current one
WhichDietNeverCurrent ==
    (impl = "client" /\ mounted) =>
        \A i \in 1..Len(questions) : SkipsAfter(i) => step # i + 1

---------------------------------------------------------------------------
(* The step and the views (SpecFlow) *)

\* C21: once questions are loaded, whatever goNext, goBack, start, restart
\* and idle-timeout events have happened, the step is within 0..total+1, the
\* results view is shown exactly when step = total+1, and for a step within
\* 1..total there is a current question, the one at that place of the list
StepWithinQuiz ==
    (impl = "client" /\ mounted /\ total > 0) =>
        /\ step \in 0..(total + 1)
        /\ ResultsView <=> (step = total + 1)
        /\ step \in 1..total => (hasCurrent /\ step \in DOMAIN questions)
        /\ hasCurrent => (step \in 1..total /\ ~ResultsView)

\* the results step of a list of several questions, reached with answers given
StepWithinQuizWitness ==
    /\ impl = "client" /\ mounted
    /\ total >= 2
    /\ step = total + 1 /\ ResultsView
    /\ answers.m # EmptyObj

\* how many of the four views are rendered
ViewsRendered ==
    Cardinality({v \in {"loading", "attract", "main", "results"} :
                    \/ v = "loading" /\ LoadingView
                    \/ v = "attract" /\ AttractView
                    \/ v = "main" /\ MainView
                    \/ v = "results" /\ ResultsView})

\* C22: in every state of the mounted QuizClient exactly one of the four
\* views is rendered, in kiosk and in non-kiosk mode, also after the idle
\* timer has fired
ExactlyOneView ==
    (impl = "client" /\ mounted) => ViewsRendered = 1

====
